---- MODULE Spec2Model ----
(***************************************************************************)
(* A model of the amadaily report pipeline: the timesheet extractor        *)
(* (parse_timesheet.py), the job-sheet extractor (parse_job_sheet.py) and  *)
(* the reconciliation engine (combine_parsers.py).                         *)
(*                                                                         *)
(* Text is a sequence of one-character strings, so that trimming,          *)
(* splitting, lower-casing and pattern matching are computed character by  *)
(* character as the Python code computes them.  A spreadsheet cell is a    *)
(* record [k, s]: k = "str" with the text s (for a numeric cell: the text  *)
(* str() gives), k = "nan" for an empty cell, k = "none" for Python None,  *)
(* k = "num" for a numeric job cell of a table read by pandas, k = "date"  *)
(* for a date cell.                                                        *)
(***************************************************************************)
EXTENDS Integers, Sequences, FiniteSets, TLC

VARIABLES
    raw, key, npc,              \* _norm_job: input, result, position
    truck, trOut, tpc,          \* _normalize_trucks: input, result, position
    grid,                       \* process_timesheet: the sheet read (df), rows of cells
    include_driving,            \* process_timesheet: the toggle
    tspc,                       \* process_timesheet: position
    header_row_idx,             \* row index of the header, NoIdx before it is found
    day_start_cols,             \* start column of each day block, left to right
    first_emp_row,              \* first employee row
    blk,                        \* number of day blocks already walked
    records,                    \* the labor records emitted so far
    ts_err,                     \* the error process_timesheet raised, "" if none
    ts_files,                   \* the files process_timesheet has written
    summary,                    \* the daily summary process_timesheet has built
    ts_out,                     \* the path process_timesheet returned, "" if none
    ts_locked,                  \* the output paths another process holds locked
    ts, js,                     \* combine_daily_reports: the two tables read
    fuzzy,                      \* combine_daily_reports: the option
    cpc,                        \* combine_daily_reports: position
    ts_prep, js_prep,           \* the prepared tables
    mapping,                    \* the fuzzy mapping
    merged,                     \* the merged table
    final_df,                   \* the output table
    sort_index,                 \* index of final_df before reset_index
    comb_err,                   \* the error combine_daily_reports raised
    out_files,                  \* the files combine_daily_reports has written
    sheets,                     \* the worksheets of the workbook written
    comb_out,                   \* the path combine_daily_reports returned, "" if none
    comb_locked,                \* the output paths another process holds locked
    job_vals, sheet_names, shpc,    \* worksheet naming: job values, names, position
    date_text, timesheet_path, now_year,    \* date label pattern: the label text,
    date_out, dpc,              \* the file name, the clock's year, the result, position
    run, wb, disk, p_locked, ppc, report,   \* combine_workbook: invocation number,
                                \* workbook, files on disk, locked paths, position,
                                \* what the combine stage read
    sheet,                      \* process_job_sheet: the sheet read (raw), rows of cells
    jspc,                       \* process_job_sheet: position
    pairs,                      \* (day_col, date_col, iso_date) of each date column
    group_rows,                 \* row indexes of the 'Job & Truck' rows
    scan_i,                     \* number of rows the group scan has passed
    current_group,              \* the group row current in the scan, NoIdx for None
    concrete_map, stone_map,    \* group row -> its concrete row, its stone row
    js_records,                 \* the job-sheet records emitted
    up,                         \* upload_file: the state of each request
    folder,                     \* the files of the uploads and outputs folders
    up_lost                     \* removals of files another request had yet to read

normVars == <<raw, key, npc>>
truckVars == <<truck, trOut, tpc>>
tsVars == <<grid, include_driving, tspc, header_row_idx, day_start_cols,
            first_emp_row, blk, records, ts_err, ts_files, summary, ts_out, ts_locked>>
combVars == <<ts, js, fuzzy, cpc, ts_prep, js_prep, mapping, merged, final_df,
              sort_index, comb_err, out_files, sheets, comb_out, comb_locked>>
sheetVars == <<job_vals, sheet_names, shpc>>
dateVars == <<date_text, timesheet_path, now_year, date_out, dpc>>
pipeVars == <<run, wb, disk, p_locked, ppc, report>>
jobVars == <<sheet, jspc, pairs, group_rows, scan_i, current_group,
             concrete_map, stone_map, js_records>>
upVars == <<up, folder, up_lost>>
vars == <<raw, key, npc, truck, trOut, tpc,
          grid, include_driving, tspc, header_row_idx, day_start_cols,
          first_emp_row, blk, records, ts_err, ts_files, summary, ts_out, ts_locked,
          ts, js, fuzzy, cpc, ts_prep, js_prep, mapping, merged, final_df,
          sort_index, comb_err, out_files, sheets, comb_out, comb_locked,
          job_vals, sheet_names, shpc, date_text, timesheet_path, now_year, date_out, dpc,
          run, wb, disk, p_locked, ppc, report,
          sheet, jspc, pairs, group_rows, scan_i, current_group,
          concrete_map, stone_map, js_records, up, folder, up_lost>>

-----------------------------------------------------------------------------
(* Text helpers: Python str primitives on character sequences.             *)

Chars(str) == [i \in 1..Len(str) |-> SubSeq(str, i, i)]

Txt(str) == [k |-> "str", s |-> Chars(str)]
TxtSeq(cs) == [k |-> "str", s |-> cs]
NaN == [k |-> "nan", s |-> <<>>]
None == [k |-> "none", s |-> <<>>]

UpperChars == Chars("ABCDEFGHIJKLMNOPQRSTUVWXYZ")
LowerChars == Chars("abcdefghijklmnopqrstuvwxyz")
DigitChars == Chars("0123456789")

UpperSet == {UpperChars[i] : i \in 1..26}
LowerSet == {LowerChars[i] : i \in 1..26}
AlphaSet == UpperSet \cup LowerSet
DigitSet == {DigitChars[i] : i \in 1..10}
WhiteSpace == {" ", "\t", "\n"}

IsUpper(c) == c \in UpperSet
IsAlpha(c) == c \in AlphaSet
IsDigit(c) == c \in DigitSet
IsSpace(c) == c \in WhiteSpace

LowerTable == [c \in UpperSet |-> LowerChars[CHOOSE i \in 1..26 : UpperChars[i] = c]]

LowerChar(c) == IF c \in UpperSet THEN LowerTable[c] ELSE c

\* str.lower()
StrLower(s) == [i \in 1..Len(s) |-> LowerChar(s[i])]

\* str(v) of a cell: "nan" for an empty (float NaN) cell, "None" for None
PyStr(v) ==
    IF v.k = "nan" THEN Chars("nan")
    ELSE IF v.k = "none" THEN Chars("None")
    ELSE v.s

RECURSIVE LStripSet(_, _)
LStripSet(s, cs) ==
    IF s # <<>> /\ Head(s) \in cs THEN LStripSet(Tail(s), cs) ELSE s

RECURSIVE RStripSet(_, _)
RStripSet(s, cs) ==
    IF s # <<>> /\ s[Len(s)] \in cs THEN RStripSet(SubSeq(s, 1, Len(s) - 1), cs) ELSE s

\* str.strip(): leading and trailing whitespace removed
StrStrip(s) == RStripSet(LStripSet(s, WhiteSpace), WhiteSpace)

\* str.strip(','): commas removed from BOTH ends
StrStripCommas(s) == RStripSet(LStripSet(s, {","}), {","})

\* str.split(): the maximal runs of non-whitespace characters, in order
RECURSIVE StrSplit(_)
StrSplit(s) ==
    LET t == LStripSet(s, WhiteSpace) IN
    IF t = <<>> THEN <<>>
    ELSE LET n == CHOOSE m \in 1..Len(t) :
                      /\ \A i \in 1..m : ~IsSpace(t[i])
                      /\ (m = Len(t) \/ IsSpace(t[m + 1]))
         IN <<SubSeq(t, 1, n)>> \o StrSplit(SubSeq(t, n + 1, Len(t)))

\* sep.join(parts)
RECURSIVE StrJoin(_, _)
StrJoin(sep, parts) ==
    IF parts = <<>> THEN <<>>
    ELSE IF Len(parts) = 1 THEN parts[1]
    ELSE parts[1] \o sep \o StrJoin(sep, Tail(parts))

StartsWith(s, p) == Len(s) >= Len(p) /\ SubSeq(s, 1, Len(p)) = p

Contains(s, p) ==
    \E i \in 1..(Len(s) - Len(p) + 1) : SubSeq(s, i, i + Len(p) - 1) = p

-----------------------------------------------------------------------------
(* combine_parsers._norm_job                                               *)

_norm_job(job) ==
    IF job.k = "none" THEN <<>>
    ELSE LET s == StrStripCommas(StrStrip(PyStr(job))) IN
         IF s = <<>> THEN <<>>
         ELSE StrLower(StrJoin(<<" ">>, StrSplit(s)))

-----------------------------------------------------------------------------
(* parse_job_sheet._normalize_trucks                                       *)

\* length of the maximal run of characters of cs that starts at s[i]
RECURSIVE RunLen(_, _, _)
RunLen(s, i, cs) ==
    IF i <= Len(s) /\ s[i] \in cs THEN 1 + RunLen(s, i + 1, cs) ELSE 0

\* re.findall(r'[A-Za-z]*\d+[A-Za-z]*', s): leftmost, greedy, non-overlapping
RECURSIVE FindTokens(_)
FindTokens(s) ==
    IF s = <<>> THEN <<>>
    ELSE LET l == RunLen(s, 1, AlphaSet)
             d == RunLen(s, l + 1, DigitSet)
             n == l + d + RunLen(s, l + d + 1, AlphaSet)
         IN IF d = 0 THEN FindTokens(Tail(s))
            ELSE <<SubSeq(s, 1, n)>> \o FindTokens(SubSeq(s, n + 1, Len(s)))

\* [s[i:i+width] for i in range(0, len(s), width)]
RECURSIVE FixedWidthParts(_, _)
FixedWidthParts(s, width) ==
    IF s = <<>> THEN <<>>
    ELSE IF Len(s) <= width THEN <<s>>
    ELSE <<SubSeq(s, 1, width)>> \o FixedWidthParts(SubSeq(s, width + 1, Len(s)), width)

\* s.isdigit()
IsDigitStr(s) == s # <<>> /\ \A i \in 1..Len(s) : s[i] \in DigitSet

\* the widths tried, in the order tried
TruckWidths == <<3, 4, 2>>

\* the width test without the sanity check of the parts
WidthSplitsAnyParts(s, width) == Len(s) % width = 0 /\ Len(s) \div width >= 2

\* len(s) % width == 0 and len(s) // width >= 2 and all(part.lstrip('0') ...)
WidthSplits(s, width) ==
    /\ Len(s) % width = 0
    /\ Len(s) \div width >= 2
    /\ \A i \in 1..Len(FixedWidthParts(s, width)) :
           LStripSet(FixedWidthParts(s, width)[i], {"0"}) # <<>>

TruckDelims == {",", " ", "/", "-"}

_normalize_trucks_keep_tokens(s) ==
    IF s = <<>> THEN s
    ELSE IF \E i \in 1..Len(s) : s[i] \in TruckDelims THEN s
    ELSE IF IsDigitStr(s) /\ Len(s) >= 6 /\ \E w \in 1..3 : WidthSplits(s, TruckWidths[w])
    THEN LET w == CHOOSE v \in 1..3 :
                      /\ WidthSplits(s, TruckWidths[v])
                      /\ \A u \in 1..(v - 1) : ~WidthSplits(s, TruckWidths[u])
         IN StrJoin(<<",", " ">>, FixedWidthParts(s, TruckWidths[w]))
    ELSE s

_normalize_trucks(s) ==
    IF s = <<>> THEN s
    ELSE IF \E i \in 1..Len(s) : s[i] \in TruckDelims THEN s
    ELSE IF IsDigitStr(s) /\ Len(s) >= 6 /\ \E w \in 1..3 : WidthSplits(s, TruckWidths[w])
    THEN LET w == CHOOSE v \in 1..3 :
                      /\ WidthSplits(s, TruckWidths[v])
                      /\ \A u \in 1..(v - 1) : ~WidthSplits(s, TruckWidths[u])
         IN StrJoin(<<",", " ">>, FixedWidthParts(s, TruckWidths[w]))
    ELSE LET tokens == FindTokens(s) IN
         IF Len(tokens) > 1 /\ StrJoin(<<>>, tokens) = s
         THEN StrJoin(<<",", " ">>, tokens)
         ELSE s

-----------------------------------------------------------------------------
(* Character order (code points of printable ASCII) and numbers in text.   *)

\* (restricted to the characters that the model's texts are written in)
AsciiOrder ==
    Chars(" !#$%&'()*+,-./0123456789:;<=>?@")
    \o UpperChars \o Chars("[]_") \o LowerChars \o Chars("{|}~")

CodeTable ==
    [c \in {AsciiOrder[i] : i \in 1..Len(AsciiOrder)} |->
        CHOOSE i \in 1..Len(AsciiOrder) : AsciiOrder[i] = c]

CharCode(c) ==
    IF c = "\t" THEN 0 - 2
    ELSE IF c = "\n" THEN 0 - 1
    ELSE CodeTable[c]

\* Python's s < t on str: lexicographic by code point
RECURSIVE StrLess(_, _)
StrLess(s, t) ==
    IF t = <<>> THEN FALSE
    ELSE IF s = <<>> THEN TRUE
    ELSE IF s[1] = t[1] THEN StrLess(Tail(s), Tail(t))
    ELSE CharCode(s[1]) < CharCode(t[1])

DigitTable == [c \in DigitSet |-> (CHOOSE i \in 1..10 : DigitChars[i] = c) - 1]

DigitVal(c) == DigitTable[c]

\* int(s) of a digit string
RECURSIVE IntVal(_)
IntVal(s) ==
    IF s = <<>> THEN 0 ELSE 10 * IntVal(SubSeq(s, 1, Len(s) - 1)) + DigitVal(s[Len(s)])

Min(a, b) == IF a <= b THEN a ELSE b

-----------------------------------------------------------------------------
(* parse_timesheet.py                                                      *)

NoIdx == -1             \* None, for a row or column index
NoDate == 0             \* None, for a date; a date y-m-d is 10000y + 100m + d
HeaderScanRows == 15
BLOCK_WIDTH == 5

\* df.shape and df.iat[r, c], rows and columns counted from 0 as in the code
NRows(g) == Len(g)
NCols(g) == IF g = <<>> THEN 0 ELSE Len(g[1])
Cell(g, r, c) == g[r + 1][c + 1]
NotNa(v) == v.k = "str"

\* The generic tokens and the Column<n> artifact of _is_placeholder_job
_GENERIC_JOB_TOKENS ==
    {Chars("job"), Chars("job#"), Chars("job number"), Chars("column"), Chars("col")}

\* _PLACEHOLDER_JOB_REGEX.fullmatch(s): ^column\s*\d+$, ignoring case
PlaceholderRegexMatches(s) ==
    /\ StartsWith(StrLower(s), Chars("column"))
    /\ LET rest == LStripSet(SubSeq(s, 7, Len(s)), WhiteSpace) IN IsDigitStr(rest)

_is_placeholder_job(value) ==
    IF value.k = "none" THEN TRUE
    ELSE LET s == StrStrip(PyStr(value)) IN
         \/ s = <<>>
         \/ PlaceholderRegexMatches(s)
         \/ StrLower(s) \in _GENERIC_JOB_TOKENS

\* any(cell.startswith('employee') for cell in row_text if cell), row i
RowHasEmployee(g, i) ==
    \E c \in 0..(NCols(g) - 1) :
        LET cell == StrLower(StrStrip(PyStr(Cell(g, i, c)))) IN
        cell # <<>> /\ StartsWith(cell, Chars("employee"))

\* step 3: the first of the first 15 rows that has an 'employee' cell
RECURSIVE ScanHeaderLast(_, _)
ScanHeaderLast(g, i) ==
    IF i >= Min(HeaderScanRows, NRows(g)) THEN NoIdx
    ELSE LET later == ScanHeaderLast(g, i + 1) IN
         IF later # NoIdx THEN later
         ELSE IF RowHasEmployee(g, i) THEN i ELSE NoIdx

RECURSIVE ScanHeader(_, _)
ScanHeader(g, i) ==
    IF i >= Min(HeaderScanRows, NRows(g)) THEN NoIdx
    ELSE IF RowHasEmployee(g, i) THEN i
    ELSE ScanHeader(g, i + 1)

\* step 4: the header labels, header[c] of the code is HeaderLabels(g, h)[c + 1]
HeaderLabels(g, h) == [c \in 1..NCols(g) |-> StrStrip(PyStr(g[h + 1][c]))]

\* step 5: the columns whose label contains 'trk', in column order
RECURSIVE DayStartCols(_, _)
DayStartCols(header, c) ==
    IF c >= Len(header) THEN <<>>
    ELSE (IF Contains(StrLower(header[c + 1]), Chars("trk")) THEN <<c>> ELSE <<>>)
         \o DayStartCols(header, c + 1)

\* the test of step 7 on the column-0 cell of row r
IsEmployeeCell(v) ==
    /\ NotNa(v)
    /\ StrStrip(PyStr(v)) # <<>>
    /\ ~StartsWith(StrLower(StrStrip(PyStr(v))), Chars("total"))

\* step 7: the first employee row below the header, header + 1 if there is none
RECURSIVE ScanFirstEmp(_, _, _)
ScanFirstEmp(g, h, r) ==
    IF r >= NRows(g) THEN h + 1
    ELSE IF IsEmployeeCell(Cell(g, r, 0)) THEN r
    ELSE ScanFirstEmp(g, h, r + 1)

FirstEmpRowAnyText(g, h) ==
    IF \E r \in (h + 1)..(NRows(g) - 1) : NotNa(Cell(g, r, 0))
    THEN CHOOSE r \in (h + 1)..(NRows(g) - 1) :
             /\ NotNa(Cell(g, r, 0))
             /\ \A q \in (h + 1)..(r - 1) : ~NotNa(Cell(g, q, 0))
    ELSE h + 1

FirstEmpRow(g, h) == ScanFirstEmp(g, h, h + 1)

\* step 8, the column scan of one day block: the first job, hours and driving
\* columns within BLOCK_WIDTH columns, stopping at a label that starts with 'trk'
RECURSIVE ScanBlock(_, _, _, _)
ScanBlock(header, day_col, offset, acc) ==
    LET c == day_col + offset IN
    IF offset >= BLOCK_WIDTH \/ c >= Len(header) THEN acc
    ELSE LET label == StrLower(StrStrip(header[c + 1])) IN
         IF offset > 0 /\ StartsWith(label, Chars("trk")) THEN acc
         ELSE ScanBlock(header, day_col, offset + 1,
                [job_col |-> IF StartsWith(label, Chars("job")) /\ acc.job_col = NoIdx
                             THEN c ELSE acc.job_col,
                 hours_col |-> IF StartsWith(label, Chars("h")) /\ acc.hours_col = NoIdx
                               THEN c ELSE acc.hours_col,
                 driving_col |-> IF (label = Chars("d") \/ StartsWith(label, Chars("drive")))
                                    /\ acc.driving_col = NoIdx
                                 THEN c ELSE acc.driving_col])

\* the scan without the stop at the next block: the first job, hours and
\* driving labels among the BLOCK_WIDTH columns from day_col
BlockColsNoStop(header, day_col) ==
    LET cs == {c \in day_col..(day_col + BLOCK_WIDTH - 1) : c < Len(header)}
        label(c) == StrLower(StrStrip(header[c + 1]))
        first(S) == IF S = {} THEN NoIdx ELSE CHOOSE c \in S : \A x \in S : c <= x
    IN [job_col |-> first({c \in cs : StartsWith(label(c), Chars("job"))}),
        hours_col |-> first({c \in cs : StartsWith(label(c), Chars("h"))}),
        driving_col |-> first({c \in cs : label(c) = Chars("d")
                                          \/ StartsWith(label(c), Chars("drive"))})]

BlockCols(header, day_col) ==
    ScanBlock(header, day_col, 0,
              [job_col |-> NoIdx, hours_col |-> NoIdx, driving_col |-> NoIdx])

\* re.search(r"(\d+(?:\.\d+)?)", s) and float(): the first number in s, in
\* hundredths (the texts of the model carry at most two decimals); 0 if none
FirstNumber(s) ==
    IF \A i \in 1..Len(s) : ~IsDigit(s[i]) THEN 0
    ELSE LET p == CHOOSE i \in 1..Len(s) :
                      IsDigit(s[i]) /\ \A j \in 1..(i - 1) : ~IsDigit(s[j])
             n == RunLen(s, p, DigitSet)
             q == p + n
             f == IF q < Len(s) /\ s[q] = "." THEN RunLen(s, q + 1, DigitSet) ELSE 0
             whole == IntVal(SubSeq(s, p, q - 1))
             frac == IF f = 0 THEN 0
                     ELSE IF f = 1 THEN 10 * DigitVal(s[q + 1])
                     ELSE 10 * DigitVal(s[q + 1]) + DigitVal(s[q + 2])
         IN 100 * whole + frac

\* work_hrs / drive_hrs of a cell
HoursOf(v) ==
    IF NotNa(v) /\ StrStrip(PyStr(v)) # <<>> THEN FirstNumber(PyStr(v)) ELSE 0

\* job of a row: the stripped job text, or <<>> for None (absent or placeholder)
JobOf(job_cell) ==
    IF NotNa(job_cell)
       /\ StrStrip(PyStr(job_cell)) # <<>>
       /\ ~_is_placeholder_job(TxtSeq(StrStrip(PyStr(job_cell))))
    THEN StrStrip(PyStr(job_cell))
    ELSE <<>>

\* pd.to_datetime(text, errors='coerce') on the date labels of the model:
\* a month/day/4-digit-year text gives that date, a text without a digit NaT
IsMDY(s) ==
    \E a \in 1..2, b \in 1..2 :
        /\ Len(s) = a + b + 6
        /\ IsDigitStr(SubSeq(s, 1, a))
        /\ s[a + 1] = "/"
        /\ IsDigitStr(SubSeq(s, a + 2, a + b + 1))
        /\ s[a + b + 2] = "/"
        /\ IsDigitStr(SubSeq(s, a + b + 3, a + b + 6))

DateOfMDY(s) ==
    LET a == RunLen(s, 1, DigitSet)
        b == RunLen(s, a + 2, DigitSet)
    IN 10000 * IntVal(SubSeq(s, a + b + 3, a + b + 6))
       + 100 * IntVal(SubSeq(s, 1, a))
       + IntVal(SubSeq(s, a + 2, a + b + 1))

\* step 6: parse_date_label
parse_date_label(cell_value) ==
    IF ~NotNa(cell_value) THEN NoDate
    ELSE LET text == StrStrip(PyStr(cell_value)) IN
         IF text = <<>> THEN NoDate
         ELSE IF IsMDY(text) THEN DateOfMDY(text)
         ELSE NoDate

\* line 115: re.search(r"(\d{1,2})[-/](\d{1,2})(?:[-/](\d{2,4}))?", text).
\* DigitsAt: n digits from position p
DigitsAt(s, p, n) == p + n - 1 <= Len(s) /\ \A i \in p..(p + n - 1) : IsDigit(s[i])

\* month of a digits and day of b digits, from position p
MatchAt(s, p, a, b) ==
    /\ DigitsAt(s, p, a)
    /\ p + a <= Len(s)
    /\ s[p + a] \in {"-", "/"}
    /\ DigitsAt(s, p + a + 1, b)

\* the greedy choices of the two quantifiers, in the order they are tried
GreedyPairs == << <<2, 2>>, <<2, 1>>, <<1, 2>>, <<1, 1>> >>

\* the year group after position q - 1: 4, 3 or 2 digits after a separator
YearGroup(s, q) ==
    IF q <= Len(s) /\ s[q] \in {"-", "/"} /\ DigitsAt(s, q + 1, 2)
    THEN SubSeq(s, q + 1, q + (CHOOSE n \in 2..4 :
                                 DigitsAt(s, q + 1, n) /\ (n = 4 \/ ~DigitsAt(s, q + 1, n + 1))))
    ELSE <<>>

\* the leftmost match: its three groups, yr = <<>> for no year group;
\* mon = <<>> when the text has no match
pattern_search(s) ==
    LET hits == {p \in 1..Len(s) : \E i \in 1..4 :
                    MatchAt(s, p, GreedyPairs[i][1], GreedyPairs[i][2])}
    IN IF hits = {} THEN [mon |-> <<>>, day |-> <<>>, yr |-> <<>>]
       ELSE LET p == CHOOSE x \in hits : \A y \in hits : x <= y
                i == CHOOSE x \in 1..4 :
                        /\ MatchAt(s, p, GreedyPairs[x][1], GreedyPairs[x][2])
                        /\ \A y \in 1..(x - 1) :
                               ~MatchAt(s, p, GreedyPairs[y][1], GreedyPairs[y][2])
                a == GreedyPairs[i][1]
                b == GreedyPairs[i][2]
            IN [mon |-> SubSeq(s, p, p + a - 1),
                day |-> SubSeq(s, p + a + 1, p + a + b),
                yr |-> YearGroup(s, p + a + b + 1)]

\* datetime(yr, mon, day) is a date
DaysIn(yr, mon) ==
    IF mon \in {4, 6, 9, 11} THEN 30
    ELSE IF mon # 2 THEN 31
    ELSE IF yr % 4 = 0 /\ (yr % 100 # 0 \/ yr % 400 = 0) THEN 29
    ELSE 28

ValidDate(yr, mon, day) ==
    yr \in 1..9999 /\ mon \in 1..12 /\ day >= 1 /\ day <= DaysIn(yr, mon)

\* lines 120 to 125: the year of a match; now is datetime.now().year
year_of(yr, now) ==
    IF yr # <<>> THEN (IF IntVal(yr) < 100 THEN IntVal(yr) + 2000 ELSE IntVal(yr))
    ELSE now

\* lines 114 to 129: the pattern strategy of parse_date_label on a stripped
\* text; NoDate when it gives nothing and the last resort is tried
pattern_date(text, now) ==
    LET m == pattern_search(text) IN
    IF m.mon = <<>> THEN NoDate
    ELSE IF ValidDate(year_of(m.yr, now), IntVal(m.mon), IntVal(m.day))
    THEN 10000 * year_of(m.yr, now) + 100 * IntVal(m.mon) + IntVal(m.day)
    ELSE NoDate

\* the neighbour search of step 8 (adj in -1, 1, 2, -2): the first date found
DateAdj == <<-1, 1, 2, -2>>

RECURSIVE NeighbourDate(_, _, _, _, _)
NeighbourDate(g, date_label_row, day_col, i, the_date) ==
    IF i > Len(DateAdj) THEN the_date
    ELSE LET c == day_col + DateAdj[i] IN
         IF 0 <= c /\ c < NCols(g)
         THEN LET d == parse_date_label(Cell(g, date_label_row, c)) IN
              IF d # NoDate THEN d
              ELSE NeighbourDate(g, date_label_row, day_col, i + 1, d)
         ELSE NeighbourDate(g, date_label_row, day_col, i + 1, the_date)

\* whether the neighbour search indexes the sheet at all
NeighbourInRange(g, day_col) ==
    \E i \in 1..Len(DateAdj) : 0 <= day_col + DateAdj[i] /\ day_col + DateAdj[i] < NCols(g)

\* the date of a day block, given a date label row
BlockDate(g, date_label_row, day_col) ==
    LET d == parse_date_label(Cell(g, date_label_row, day_col)) IN
    IF d # NoDate THEN d ELSE NeighbourDate(g, date_label_row, day_col, 1, d)

\* whether row r of a day block yields a record (line 249), and the record;
\* row and col are bookkeeping of the model: the sheet row and block start
EmitsAny(job, work_hrs, drive_hrs) == ~(job = <<>> \/ (work_hrs = 0 \/ drive_hrs = 0))

Emits(job, work_hrs, drive_hrs) == ~(job = <<>> \/ (work_hrs = 0 /\ drive_hrs = 0))

\* line 245: the hours of a record
effective_hours_always(work_hrs, drive_hrs, incl) == work_hrs + drive_hrs

effective_hours(work_hrs, drive_hrs, incl) == work_hrs + (IF incl THEN drive_hrs ELSE 0)

RowRecords(g, r, day_col, cols, the_date, incl) ==
    LET emp_cell == Cell(g, r, 0)
        emp == StrStrip(PyStr(emp_cell))
        job == JobOf(Cell(g, r, cols.job_col))
        work_hrs == HoursOf(Cell(g, r, cols.hours_col))
        drive_hrs == IF cols.driving_col # NoIdx
                     THEN HoursOf(Cell(g, r, cols.driving_col)) ELSE 0
    IN IF ~NotNa(emp_cell) THEN <<>>
       ELSE IF emp = <<>> \/ StartsWith(StrLower(emp), Chars("total")) THEN <<>>
       ELSE IF ~Emits(job, work_hrs, drive_hrs) THEN <<>>
       ELSE <<[Employee |-> emp,
               Date |-> the_date,
               Job |-> job,
               Hours |-> effective_hours(work_hrs, drive_hrs, incl),
               DrivingHours |-> drive_hrs,
               Trk |-> Cell(g, r, day_col),
               row |-> r,
               col |-> day_col]>>

RECURSIVE BlockRecords(_, _, _, _, _, _)
BlockRecords(g, r, day_col, cols, the_date, incl) ==
    IF r >= NRows(g) THEN <<>>
    ELSE RowRecords(g, r, day_col, cols, the_date, incl)
         \o BlockRecords(g, r + 1, day_col, cols, the_date, incl)

\* step 9, the test of line 262
NoRecordsNever(recs) == FALSE

NoRecords(recs) == recs = <<>>

\* the keys of groupby(['Date', 'Job'], dropna=False)
GroupKeys(recs) == {<<recs[i].Date, recs[i].Job>> : i \in 1..Len(recs)}

\* the order of the groups: by date, a missing date last, then by job text
GroupBefore(a, b) ==
    IF a[1] # b[1] THEN a[1] # NoDate /\ (b[1] = NoDate \/ a[1] < b[1])
    ELSE StrLess(a[2], b[2])

RECURSIVE SortedGroups(_)
SortedGroups(S) ==
    IF S = {} THEN <<>>
    ELSE LET k == CHOOSE x \in S : \A y \in S \ {x} : GroupBefore(x, y)
         IN <<k>> \o SortedGroups(S \ {k})

\* sorted(set(x)) on texts
RECURSIVE SortedTexts(_)
SortedTexts(S) ==
    IF S = {} THEN <<>>
    ELSE LET t == CHOOSE x \in S : \A y \in S \ {x} : StrLess(x, y)
         IN <<t>> \o SortedTexts(S \ {t})

\* x.nunique() of line 272, and a count of the records instead
count_records(xs) == Len(xs)

nunique(xs) == Cardinality({xs[i] : i \in 1..Len(xs)})

RECURSIVE SumOf(_)
SumOf(xs) == IF xs = <<>> THEN 0 ELSE Head(xs) + SumOf(Tail(xs))

\* the aggregation of one group, lines 271 to 276
SummaryRow(recs, k) ==
    LET grp == SelectSeq(recs, LAMBDA rec : <<rec.Date, rec.Job>> = k)
        emps == [i \in 1..Len(grp) |-> grp[i].Employee]
    IN [Date |-> k[1],
        Job |-> k[2],
        EmployeeCount |-> nunique(emps),
        TotalHours |-> SumOf([i \in 1..Len(grp) |-> grp[i].Hours]),
        TotalDrivingHours |-> SumOf([i \in 1..Len(grp) |-> grp[i].DrivingHours]),
        Employees |-> StrJoin(Chars(", "), SortedTexts({emps[i] : i \in 1..Len(emps)}))]

\* lines 268 to 278: the daily summary
Summarize(recs) ==
    LET ks == SortedGroups(GroupKeys(recs)) IN [i \in 1..Len(ks) |-> SummaryRow(recs, ks[i])]

\* the output paths of lines 280, 281, 290 and 295, inside output_dir
out_csv == "timesheet_long_parsed.csv"
out_xlsx == "timesheet_daily_summary.xlsx"
alt_xlsx == "timesheet_daily_summary_new.xlsx"
out_csv_summary == "timesheet_daily_summary_daily_summary.csv"
TsPaths == {out_csv, out_xlsx, alt_xlsx, out_csv_summary}

\* lines 285 to 297: the path the summary is written to when the paths lk are
\* locked; "" when the last PermissionError leaves the function
summary_target(lk) ==
    IF out_xlsx \notin lk THEN out_xlsx
    ELSE IF alt_xlsx \notin lk THEN alt_xlsx
    ELSE IF out_csv_summary \notin lk THEN out_csv_summary
    ELSE ""

-----------------------------------------------------------------------------
(* difflib, as used by _fuzzy_reconcile (no junk; autojunk needs 200+      *)
(* characters).                                                            *)

FuzzyCutoffPct == 82    \* cutoff=0.82, in hundredths

\* SequenceMatcher.find_longest_match(alo, ahi, blo, bhi): the longest block
\* a[i:i+k] = b[j:j+k] in the ranges; of those the one starting earliest in a,
\* and of those the one starting earliest in b.  Indices count from 0.
IsBlock(a, b, i, j, k) == \A x \in 1..k : a[i + x] = b[j + x]

LongestLen(a, b, alo, ahi, blo, bhi) ==
    LET ks == {k \in 0..Min(ahi - alo, bhi - blo) :
                  \E i \in alo..(ahi - k), j \in blo..(bhi - k) : IsBlock(a, b, i, j, k)}
    IN CHOOSE k \in ks : \A m \in ks : m <= k

find_longest_match(a, b, alo, ahi, blo, bhi) ==
    LET k == LongestLen(a, b, alo, ahi, blo, bhi)
        i == CHOOSE x \in alo..(ahi - k) :
                 /\ \E j \in blo..(bhi - k) : IsBlock(a, b, x, j, k)
                 /\ \A y \in alo..(x - 1) : \A j \in blo..(bhi - k) : ~IsBlock(a, b, y, j, k)
        j == CHOOSE y \in blo..(bhi - k) :
                 /\ IsBlock(a, b, i, y, k)
                 /\ \A z \in blo..(y - 1) : ~IsBlock(a, b, i, z, k)
    IN [i |-> i, j |-> j, k |-> k]

\* the total size of get_matching_blocks(): the longest match, then the
\* matches to its left and to its right
RECURSIVE MatchCount(_, _, _, _, _, _)
MatchCount(a, b, alo, ahi, blo, bhi) ==
    IF alo >= ahi \/ blo >= bhi THEN 0
    ELSE LET m == find_longest_match(a, b, alo, ahi, blo, bhi) IN
         IF m.k = 0 THEN 0
         ELSE m.k + MatchCount(a, b, alo, m.i, blo, m.j)
                  + MatchCount(a, b, m.i + m.k, ahi, m.j + m.k, bhi)

\* the matches quick_ratio() counts: the multiset intersection of the characters
QuickMatches(a, b) ==
    LET cs == {a[i] : i \in 1..Len(a)}
        Count(s, c) == Cardinality({i \in 1..Len(s) : s[i] = c})
        RECURSIVE Sum(_)
        Sum(S) == IF S = {} THEN 0
                  ELSE LET c == CHOOSE x \in S : TRUE
                       IN Min(Count(a, c), Count(b, c)) + Sum(S \ {c})
    IN Sum(cs)

\* what SequenceMatcher(seq1 = x, seq2 = word) measures: the matches of
\* ratio(), those of quick_ratio(), the total length
ScoreOf(x, word) ==
    [x |-> x,
     m |-> MatchCount(x, word, 0, Len(x), 0, Len(word)),
     q |-> QuickMatches(x, word),
     lx |-> Len(x),
     t |-> Len(x) + Len(word)]

\* the test of get_close_matches on one possibility:
\* real_quick_ratio, quick_ratio and ratio all reach the cutoff
Clears(sc) ==
    LET \* _calculate_ratio(matches, length) >= cutoff
        RatioClears(matches, length) ==
            IF length = 0 THEN TRUE ELSE 200 * matches >= FuzzyCutoffPct * length
    IN /\ RatioClears(Min(sc.lx, sc.t - sc.lx), sc.t)
       /\ RatioClears(sc.q, sc.t)
       /\ RatioClears(sc.m, sc.t)

IsClose(x, word) == Clears(ScoreOf(x, word))

-----------------------------------------------------------------------------
(* combine_parsers.py.  A table (DataFrame) is a record [cols, rows]: the  *)
(* column names in order, and the rows, each a function from the column    *)
(* names to cells.  A date (datetime.date, or the Timestamp read_excel     *)
(* gives for a date cell) is a cell [k |-> "date", s] with s the eight     *)
(* digits YYYYMMDD.                                                        *)

NoTable == [cols |-> <<>>, rows |-> <<>>]

Range(s) == {s[i] : i \in 1..Len(s)}

\* pd.isna(v)
IsNa(v) == v.k \in {"nan", "none"}

\* row with column c set to v (added when the row has no such column)
WithCol(r, c, v) == [x \in (DOMAIN r) \cup {c} |-> IF x = c THEN v ELSE r[x]]

\* _coerce_date: None for a missing value, the date of a Timestamp, the date
\* pd.to_datetime parses from a text, None when it raises.  (Texts are ISO
\* dates or carry nothing pd.to_datetime can read.)
_coerce_date(v) ==
    IF IsNa(v) THEN None
    ELSE IF v.k = "date" THEN v
    ELSE IF /\ Len(v.s) = 10
            /\ v.s[5] = "-" /\ v.s[8] = "-"
            /\ \A i \in {1, 2, 3, 4, 6, 7, 9, 10} : IsDigit(v.s[i])
            /\ IntVal(SubSeq(v.s, 6, 7)) \in 1..12
            /\ IntVal(SubSeq(v.s, 9, 10)) \in 1..31
    THEN [k |-> "date", s |-> SubSeq(v.s, 1, 4) \o SubSeq(v.s, 6, 7) \o SubSeq(v.s, 9, 10)]
    ELSE None

required == {"Date", "Job"}

\* every required column is named, whichever is missing
missing_all(df) == required

\* missing = required - set(df.columns)
missing(df) == required \ Range(df.cols)

\* the two prepared columns: Date coerced, _CanonicalJob added
PreparedRows(df) ==
    [i \in 1..Len(df.rows) |->
        WithCol(WithCol(df.rows[i], "Date", _coerce_date(df.rows[i]["Date"])),
                "_CanonicalJob", TxtSeq(_norm_job(df.rows[i]["Job"])))]

\* _prepare_timesheet_df, past the check of the columns
_prepare_timesheet_df(df) ==
    [cols |-> Append(df.cols, "_CanonicalJob"), rows |-> PreparedRows(df)]

_alias_targets ==
    [a \in {"5", "_5", "unnamed: 5", "8", "_8", "unnamed: 8", "10", "_10", "unnamed: 10"} |->
        IF a \in {"5", "_5", "unnamed: 5"} THEN "Truck(s)"
        ELSE IF a \in {"8", "_8", "unnamed: 8"} THEN "Concrete Yds"
        ELSE "Stone Lds"]

\* rename_dict: the columns whose name, stripped and lower-cased, is an
\* alias and whose target is not yet a column
rename_dict(df) ==
    LET AliasKeys(col) ==
            {a \in DOMAIN _alias_targets : Chars(a) = StrLower(StrStrip(Chars(col)))}
    IN
    [c \in {x \in Range(df.cols) :
               /\ AliasKeys(x) # {}
               /\ \A a \in AliasKeys(x) : _alias_targets[a] \notin Range(df.cols)} |->
        _alias_targets[CHOOSE a \in AliasKeys(c) : TRUE]]

NewName(rd, c) == IF c \in DOMAIN rd THEN rd[c] ELSE c

\* df.rename(columns=rd)
RenameCols(df, rd) ==
    [cols |-> [i \in 1..Len(df.cols) |-> NewName(rd, df.cols[i])],
     rows |-> [i \in 1..Len(df.rows) |->
                 [n \in {NewName(rd, c) : c \in DOMAIN df.rows[i]} |->
                     df.rows[i][CHOOSE c \in DOMAIN df.rows[i] : NewName(rd, c) = n]]]]

\* _prepare_job_sheet_df, past the check of the columns
_prepare_job_sheet_df(df) ==
    LET d == RenameCols(df, rename_dict(df)) IN
    [cols |-> Append(d.cols, "_CanonicalJob"), rows |-> PreparedRows(d)]

\* Series.unique(): the distinct values in order of first appearance
RECURSIVE Unique(_)
Unique(s) ==
    IF s = <<>> THEN <<>>
    ELSE LET r == Unique(SubSeq(s, 1, Len(s) - 1)) IN
         IF s[Len(s)] \in Range(r) THEN r ELSE Append(r, s[Len(s)])

\* by_date: per date of the right table (groupby drops the missing dates)
\* the distinct canonical jobs, in order
by_date(right) ==
    [d \in {r["Date"] : r \in {x \in Range(right.rows) : ~IsNa(x["Date"])}} |->
        LET sub == SelectSeq(right.rows, LAMBDA r : r["Date"] = d) IN
        Unique([i \in 1..Len(sub) |-> sub[i]["_CanonicalJob"].s])]

\* nlargest orders the (score, x) pairs: higher ratio first (2m/t, 1.0 for
\* two empty texts), then greater text
RanksBefore(a, b) ==
    LET na == IF a.t = 0 THEN 1 ELSE 2 * a.m
        da == IF a.t = 0 THEN 1 ELSE a.t
        nb == IF b.t = 0 THEN 1 ELSE 2 * b.m
        db == IF b.t = 0 THEN 1 ELSE b.t
    IN na * db > nb * da \/ (na * db = nb * da /\ StrLess(b.x, a.x))

\* [x for score, x in heapq.nlargest(n, result)]
RECURSIVE nlargest(_, _)
nlargest(n, S) ==
    IF S = {} \/ n = 0 THEN <<>>
    ELSE LET b == CHOOSE a \in S : \A c \in S \ {a} : RanksBefore(a, c)
         IN <<b.x>> \o nlargest(n - 1, S \ {b})

FuzzyN == 2     \* n=2

\* only the best candidate is returned
get_close_matches_best(word, possibilities) ==
    nlargest(1, {sc \in {ScoreOf(x, word) : x \in Range(possibilities)} : Clears(sc)})

\* difflib.get_close_matches(word, possibilities, n=2, cutoff=0.82), for
\* possibilities without repetition: the best n of those that reach the cutoff
get_close_matches(word, possibilities) ==
    nlargest(FuzzyN, {sc \in {ScoreOf(x, word) : x \in Range(possibilities)} : Clears(sc)})

KeyOf(r) == <<r["Date"], r["_CanonicalJob"]>>

\* the (Date, _CanonicalJob) pairs of the rows of a table
KeysOf(df) == {KeyOf(r) : r \in Range(df.rows)}

\* the left pairs are matched even when the right table has the same pair
_fuzzy_reconcile_no_skip(left, right) ==
    LET bd == by_date(right) IN
    [p \in {q \in KeysOf(left) :
               /\ q[1] \in DOMAIN bd
               /\ bd[q[1]] # <<>>
               /\ Len(get_close_matches(q[2].s, bd[q[1]])) = 1} |->
        TxtSeq(get_close_matches(p[2].s, bd[p[1]])[1])]

\* _fuzzy_reconcile: the mapping (date, left canonical job) -> right
\* canonical job, a function on the pairs that are remapped
_fuzzy_reconcile(left, right) ==
    LET bd == by_date(right)
        merged_keys == KeysOf(right)
    IN
    [p \in {q \in KeysOf(left) :
               /\ q \notin merged_keys
               /\ q[1] \in DOMAIN bd
               /\ bd[q[1]] # <<>>
               /\ Len(get_close_matches(q[2].s, bd[q[1]])) = 1} |->
        TxtSeq(get_close_matches(p[2].s, bd[p[1]])[1])]

\* ts_prep["_CanonicalJob"] = ts_prep.apply(_map_row, axis=1), when the
\* mapping is not empty
_map_row(row, mp) ==
    IF KeyOf(row) \in DOMAIN mp THEN mp[KeyOf(row)] ELSE row["_CanonicalJob"]

\* the mapping computed and not applied to the left keys
ApplyMappingNowhere(left, mp) == left

ApplyMapping(left, mp) ==
    IF DOMAIN mp = {} THEN left
    ELSE [cols |-> left.cols,
          rows |-> [i \in 1..Len(left.rows) |->
                      WithCol(left.rows[i], "_CanonicalJob", _map_row(left.rows[i], mp))]]

\* pd.merge(left, right, how="outer", on=["Date", "_CanonicalJob"],
\*          suffixes=("_TS", "_JS"))
MergeOn == {"Date", "_CanonicalJob"}

LeftName(c, right) == IF c \notin MergeOn /\ c \in Range(right.cols) THEN c \o "_TS" ELSE c

RightName(c, left) == IF c \in Range(left.cols) THEN c \o "_JS" ELSE c

RightOnly(right) == SelectSeq(right.cols, LAMBDA c : c \notin MergeOn)

MergedCols(left, right) ==
    [i \in 1..Len(left.cols) |-> LeftName(left.cols[i], right)]
    \o [i \in 1..Len(RightOnly(right)) |-> RightName(RightOnly(right)[i], left)]

\* one merged row; l or r is <<>> when that side has no row of the key
JoinRow(l, r, left, right) ==
    [n \in Range(MergedCols(left, right)) |->
        IF \E c \in Range(left.cols) : LeftName(c, right) = n
        THEN LET c == CHOOSE x \in Range(left.cols) : LeftName(x, right) = n IN
             IF DOMAIN l # {} THEN l[c] ELSE IF c \in MergeOn THEN r[c] ELSE NaN
        ELSE LET c == CHOOSE x \in Range(RightOnly(right)) : RightName(x, left) = n IN
             IF DOMAIN r # {} THEN r[c] ELSE NaN]

\* order of two dates, a missing date after every date
DateLess(a, b) == a.k = "date" /\ (b.k # "date" \/ IntVal(a.s) < IntVal(b.s))

\* the merge keys in lexicographic order
RECURSIVE SortedKeys(_)
SortedKeys(S) ==
    IF S = {} THEN <<>>
    ELSE LET KeyLess(p, q) ==
                 DateLess(p[1], q[1]) \/ (p[1] = q[1] /\ StrLess(p[2].s, q[2].s))
             m == CHOOSE p \in S : \A q \in S \ {p} : KeyLess(p, q)
         IN <<m>> \o SortedKeys(S \ {m})

\* the rows of one key: every left row with every right row (missing keys
\* match each other), or the rows of the one side with the other side empty
GroupRows(p, left, right) ==
    LET ls == SelectSeq(left.rows, LAMBDA r : KeyOf(r) = p)
        rs == SelectSeq(right.rows, LAMBDA r : KeyOf(r) = p)
    IN IF rs = <<>> THEN [i \in 1..Len(ls) |-> JoinRow(ls[i], <<>>, left, right)]
       ELSE IF ls = <<>> THEN [j \in 1..Len(rs) |-> JoinRow(<<>>, rs[j], left, right)]
       ELSE [n \in 1..(Len(ls) * Len(rs)) |->
                JoinRow(ls[((n - 1) \div Len(rs)) + 1], rs[((n - 1) % Len(rs)) + 1],
                        left, right)]

RECURSIVE GroupsInOrder(_, _, _)
GroupsInOrder(ks, left, right) ==
    IF ks = <<>> THEN <<>>
    ELSE GroupRows(Head(ks), left, right) \o GroupsInOrder(Tail(ks), left, right)

Merge(left, right) ==
    [cols |-> MergedCols(left, right),
     rows |-> GroupsInOrder(SortedKeys(KeysOf(left) \cup KeysOf(right)), left, right)]

\* _choose_job: the job sheet's Job when it is a non-blank text
_choose_job_ts_first(row) ==
    IF row["Job_TS"].k = "str" /\ StrStrip(row["Job_TS"].s) # <<>>
    THEN row["Job_TS"]
    ELSE row["Job_JS"]

_choose_job(row) ==
    IF row["Job_JS"].k = "str" /\ StrStrip(row["Job_JS"].s) # <<>>
    THEN row["Job_JS"]
    ELSE row["Job_TS"]

\* merged["Job"] = merged.apply(_choose_job, axis=1)
WithJob(m) ==
    [cols |-> Append(m.cols, "Job"),
     rows |-> [i \in 1..Len(m.rows) |-> WithCol(m.rows[i], "Job", _choose_job(m.rows[i]))]]

\* _pick_first: base, base_TS or base_JS, the first that is a column ("" for None)
_pick_first(df_cols, base) ==
    IF base \in Range(df_cols) THEN base
    ELSE IF (base \o "_TS") \in Range(df_cols) THEN base \o "_TS"
    ELSE IF (base \o "_JS") \in Range(df_cols) THEN base \o "_JS"
    ELSE ""

_timesheet_bases == <<"EmployeeCount", "TotalHours", "TotalDrivingHours", "Employees">>

ordered(cols) ==
    <<"Job", "Date">>
    \o SelectSeq([i \in 1..Len(_timesheet_bases) |-> _pick_first(cols, _timesheet_bases[i])],
                 LAMBDA c : c # "")
    \o SelectSeq(<<"Truck(s)", "Description", "Concrete", "Concrete Yds", "Stone", "Stone Lds">>,
                 LAMBDA c : c \in Range(cols))

remaining(cols) ==
    SelectSeq(cols, LAMBDA c : c \notin Range(ordered(cols)) \cup {"_CanonicalJob", "Job_TS", "Job_JS"})

\* _rename_map: TotalHours -> Working Hours, TotalDrivingHours -> Driving Hours
_rename_map(cols) ==
    LET wh == _pick_first(cols, "TotalHours")
        dh == _pick_first(cols, "TotalDrivingHours")
    IN [c \in {x \in {wh} : x # "" /\ "Working Hours" \notin Range(cols)}
              \cup {x \in {dh} : x # "" /\ "Driving Hours" \notin Range(cols)} |->
           IF c = wh THEN "Working Hours" ELSE "Driving Hours"]

\* Driving Hours moved next to Working Hours when both are columns
MoveDriving(cols) ==
    IF "Working Hours" \in Range(cols) /\ "Driving Hours" \in Range(cols)
    THEN LET rest == SelectSeq(cols, LAMBDA c : c # "Driving Hours")
             w == CHOOSE i \in 1..Len(rest) : rest[i] = "Working Hours"
         IN SubSeq(rest, 1, w) \o <<"Driving Hours">> \o SubSeq(rest, w + 1, Len(rest))
    ELSE cols

\* final_df before the sort: the columns selected, renamed, reordered
SelectColumns(m) ==
    LET picked == [cols |-> ordered(m.cols) \o remaining(m.cols),
                   rows |-> [i \in 1..Len(m.rows) |->
                               [c \in Range(ordered(m.cols) \o remaining(m.cols)) |->
                                   m.rows[i][c]]]]
        renamed == RenameCols(picked, _rename_map(picked.cols))
    IN [cols |-> MoveDriving(renamed.cols), rows |-> renamed.rows]

\* _job_sort_key: final_df["Job"].astype(str).str.lower()
_job_sort_key(row) == StrLower(PyStr(row["Job"]))

\* the order of sort_values(["_job_sort_key", "Date"]): a missing date last
RowLess(r1, r2) ==
    \/ StrLess(_job_sort_key(r1), _job_sort_key(r2))
    \/ _job_sort_key(r1) = _job_sort_key(r2) /\ DateLess(r1["Date"], r2["Date"])

\* the index of the sorted frame: the positions (from 0) of the rows before
\* the sort, in their order after it; rows that compare equal keep their order
SortIndex(rows) ==
    LET Before(j, i) == RowLess(rows[j], rows[i]) \/ (~RowLess(rows[i], rows[j]) /\ j < i)
        Pos(i) == Cardinality({j \in 1..Len(rows) : j # i /\ Before(j, i)}) + 1
    IN [p \in 1..Len(rows) |-> (CHOOSE i \in 1..Len(rows) : Pos(i) = p) - 1]

\* sort_values(...).drop(columns=["_job_sort_key"]).reset_index(drop=True)
SortValues(df) ==
    [cols |-> df.cols,
     rows |-> [p \in 1..Len(df.rows) |-> df.rows[SortIndex(df.rows)[p] + 1]]]

\* the output paths of lines 288 to 308, inside output_dir
xlsx_path == "xlsx"
csv_path == "csv"

\* lines 312 to 316: _sanitize_sheet_name, and a variant that does not trim
invalid == {"[", "]", ":", "*", "?", "/", "\\"}
SheetNameMax == 31

_sanitize_no_trim(name) == SelectSeq(name, LAMBDA ch : ch \notin invalid)

_sanitize_sheet_name(name) ==
    LET clean == SelectSeq(name, LAMBDA ch : ch \notin invalid)
    IN IF Len(clean) > SheetNameMax THEN SubSeq(clean, 1, SheetNameMax) ELSE clean

\* str(counter)
RECURSIVE DecStr(_)
DecStr(n) ==
    IF n < 10 THEN <<DigitChars[n + 1]>>
    ELSE DecStr(n \div 10) \o <<DigitChars[(n % 10) + 1]>>

\* fillna("UnknownJob") on a Job cell
FillJob(v) == IF IsNa(v) THEN Txt("UnknownJob") ELSE v

\* line 326: sorted(jobs, key=lambda v: str(v).lower()), a stable sort
RECURSIVE SortJobs(_)
SortJobs(vs) ==
    IF vs = <<>> THEN <<>>
    ELSE LET rest == SortJobs(SubSeq(vs, 1, Len(vs) - 1))
             v == vs[Len(vs)]
             n == Cardinality({i \in 1..Len(rest) :
                     ~StrLess(StrLower(PyStr(v)), StrLower(PyStr(rest[i])))})
         IN SubSeq(rest, 1, n) \o <<v>> \o SubSeq(rest, n + 1, Len(rest))

\* lines 324 to 326: the job values of a Job column, one per distinct value
jobs(col) == SortJobs(Unique([i \in 1..Len(col) |-> FillJob(col[i])]))

\* lines 333 to 339: the loop that makes a name unused
RECURSIVE Disambiguate(_, _, _, _)
Disambiguate(base, name, counter, used_names) ==
    IF name \notin used_names THEN name
    ELSE LET suffix == <<"_">> \o DecStr(counter)
             trunc == SubSeq(base, 1, Min(Len(base), SheetNameMax - Len(suffix)))
         IN Disambiguate(base, _sanitize_sheet_name(trunc \o suffix), counter + 1, used_names)

\* lines 327 to 341: the names of the per-job sheets, in the order of jobs
RECURSIVE NameSheets(_, _, _)
NameSheets(js_, i, acc) ==
    IF i > Len(js_) THEN acc
    ELSE LET base == _sanitize_sheet_name(PyStr(js_[i]))
             name == IF base # <<>> THEN base ELSE Chars("Sheet")
         IN NameSheets(js_, i + 1,
                Append(acc, Disambiguate(base, name, 2, Range(acc) \cup {Chars("All")})))

SheetNames(col) == NameSheets(jobs(col), 1, <<>>)

\* lines 318 to 341: the worksheets of the per-sheet workbook
PerSheet(df) ==
    LET col == [i \in 1..Len(df.rows) |-> df.rows[i]["Job"]]
        js_ == jobs(col)
        names == SheetNames(col)
    IN <<[name |-> Chars("All"), rows |-> df.rows]>>
       \o [i \in 1..Len(js_) |->
              [name |-> names[i],
               rows |-> SelectSeq(df.rows, LAMBDA r : FillJob(r["Job"]) = js_[i])]]

\* line 344: the worksheet of the single-sheet workbook
SingleSheet(df) == <<[name |-> Chars("Sheet1"), rows |-> df.rows]>>

-----------------------------------------------------------------------------
(* run_combine_workbook.py: the files of the output folder.  The content   *)
(* of a file is recorded as the invocation that wrote it and the workbook  *)
(* it was derived from; run = 0 is a file that does not exist.             *)

job_sheet_norm_path == "ex_job_sheet_normalized.xlsx"
combined_path == "combined_daily_report.xlsx"
PipePaths == TsPaths \cup {job_sheet_norm_path, combined_path}

NoFile == [run |-> 0, wb |-> 0]
NoFiles == [p \in PipePaths |-> NoFile]
NoBook == [id |-> 0, exists |-> FALSE, ts_ok |-> FALSE, js_empty |-> FALSE]
NoReport == [ts |-> NoFile, js |-> NoFile]

\* os.path.exists
Exists(d, p) == d[p].run # 0

\* a file written by the current invocation
Written(n, book) == [run |-> n, wb |-> book.id]

\* process_timesheet as combine_workbook sees it: the files it leaves in the
\* output folder, and whether it raised
TimesheetWrites(d, n, book, lk) ==
    IF ~book.ts_ok \/ out_csv \in lk THEN d
    ELSE IF summary_target(lk) = "" THEN [d EXCEPT ![out_csv] = Written(n, book)]
    ELSE [d EXCEPT ![out_csv] = Written(n, book), ![summary_target(lk)] = Written(n, book)]

TimesheetRaises(book, lk) == ~book.ts_ok \/ out_csv \in lk \/ summary_target(lk) = ""

\* process_job_sheet with output_path: an empty sheet returns before the
\* write (lines 53, 54); otherwise the table is written to output_path
JobSheetWrites(d, n, book, lk) ==
    IF book.js_empty \/ job_sheet_norm_path \in lk THEN d
    ELSE [d EXCEPT ![job_sheet_norm_path] = Written(n, book)]

JobSheetRaises(book, lk) == ~book.js_empty /\ job_sheet_norm_path \in lk

-----------------------------------------------------------------------------
(* parse_job_sheet.py                                                      *)

\* s.split(sep) for a one-character separator
RECURSIVE SplitOn(_, _)
SplitOn(s, sep) ==
    IF \A i \in 1..Len(s) : s[i] # sep THEN <<s>>
    ELSE LET n == CHOOSE m \in 1..Len(s) : s[m] = sep /\ \A i \in 1..(m - 1) : s[i] # sep
         IN <<SubSeq(s, 1, n - 1)>> \o SplitOn(SubSeq(s, n + 1, Len(s)), sep)

\* _safe_get(row, idx), idx >= 0
_safe_get(row, idx) == IF idx < Len(row) THEN row[idx + 1] ELSE None

\* _has_value, and a test that takes the text of an empty cell for a value
_has_value_any_text(v) == v.k # "none" /\ StrStrip(PyStr(v)) # <<>>

_has_value(v) ==
    /\ v.k # "none"
    /\ StrStrip(PyStr(v)) # <<>>
    /\ StrLower(StrStrip(PyStr(v))) # Chars("nan")

\* _clean_str: "" for a missing value, quotes removed, a comma list with a
\* number in it re-joined with ", "
_clean_str(v) ==
    IF v.k = "none" THEN <<>>
    ELSE IF StrLower(StrStrip(PyStr(v))) = Chars("nan") THEN <<>>
    ELSE LET s == SelectSeq(StrStrip(PyStr(v)), LAMBDA c : c # "\"")
             split == SplitOn(s, ",")
             parts == SelectSeq([i \in 1..Len(split) |-> StrStrip(split[i])],
                                LAMBDA q : q # <<>>)
         IN IF Len(parts) > 1 /\ \E i \in 1..Len(parts) : IsDigitStr(parts[i])
            THEN StrJoin(Chars(", "), parts)
            ELSE s

\* dateutil's parse(s, fuzzy=False) on the header texts of the model: the
\* date of a month/day/year text, day first when the first number is no
\* month, and of a 'Mon d yyyy' text; NoDate when it raises
MonthAbbr == <<"jan", "feb", "mar", "apr", "may", "jun",
               "jul", "aug", "sep", "oct", "nov", "dec">>

MonthNameDate(s) ==
    IF \E m \in 1..12, b \in 1..2 :
          /\ Len(s) = b + 9
          /\ StrLower(SubSeq(s, 1, 3)) = Chars(MonthAbbr[m])
          /\ s[4] = " "
          /\ IsDigitStr(SubSeq(s, 5, b + 4))
          /\ s[b + 5] = " "
          /\ IsDigitStr(SubSeq(s, b + 6, b + 9))
    THEN LET m == CHOOSE n \in 1..12 : StrLower(SubSeq(s, 1, 3)) = Chars(MonthAbbr[n])
             b == Len(s) - 9
             y == IntVal(SubSeq(s, b + 6, b + 9))
             d == IntVal(SubSeq(s, 5, b + 4))
         IN IF ValidDate(y, m, d) THEN 10000 * y + 100 * m + d ELSE NoDate
    ELSE NoDate

parse_date(s) ==
    IF ~IsMDY(s) THEN MonthNameDate(s)
    ELSE LET d == DateOfMDY(s)
             y == d \div 10000
             a == (d \div 100) % 100
             b == d % 100
         IN IF ValidDate(y, a, b) THEN d
            ELSE IF ValidDate(y, b, a) THEN 10000 * y + 100 * b + a
            ELSE NoDate

\* date.isoformat()
ZeroPad(n, w) == [i \in 1..(w - Len(DecStr(n))) |-> "0"] \o DecStr(n)

isoformat(d) ==
    ZeroPad(d \div 10000, 4) \o <<"-">> \o ZeroPad((d \div 100) % 100, 2)
    \o <<"-">> \o ZeroPad(d % 100, 2)

\* lines 60 to 74: a header cell is a date column
IsDateCell(cell) ==
    /\ ~IsNa(cell)
    /\ \E i \in 1..Len(StrStrip(PyStr(cell))) : StrStrip(PyStr(cell))[i] \in {"/", "-"}
    /\ parse_date(StrStrip(PyStr(cell))) # NoDate

date_cols(header_row) ==
    SelectSeq([c \in 1..Len(header_row) |-> c - 1],
              LAMBDA c : IsDateCell(header_row[c + 1]))

\* lines 77 to 80: the day column of a date column is the one before it,
\* the date column itself for column 0
day_col_of(date_col) == IF date_col > 0 THEN date_col - 1 ELSE date_col

Pairs(header_row) ==
    LET dc == date_cols(header_row) IN
    [i \in 1..Len(dc) |->
        [day_col |-> day_col_of(dc[i]),
         date_col |-> dc[i],
         iso_date |-> isoformat(parse_date(StrStrip(PyStr(header_row[dc[i] + 1]))))]]

\* lines 83, 84: the rows whose column-0 text contains 'Job & Truck'
GroupRowsOf(g) ==
    SelectSeq([r \in 1..NRows(g) |-> r - 1],
              LAMBDA r : Contains(PyStr(Cell(g, r, 0)), Chars("Job & Truck")))

\* [None] * raw.shape[1]
NoneRow(g) == [c \in 1..NCols(g) |-> None]

\* lines 95 to 103: what a row is to the scan, given the current group; and
\* the same without the test that a group is current
row_kind_no_group_test(cell0, cur) ==
    IF Contains(cell0, Chars("Job & Truck")) THEN "job"
    ELSE IF Contains(cell0, Chars("Concrete")) THEN "concrete"
    ELSE IF Contains(cell0, Chars("Stone")) THEN "stone"
    ELSE "other"

row_kind(cell0, cur) ==
    IF Contains(cell0, Chars("Job & Truck")) THEN "job"
    ELSE IF Contains(cell0, Chars("Concrete")) /\ cur # NoIdx THEN "concrete"
    ELSE IF Contains(cell0, Chars("Stone")) /\ cur # NoIdx THEN "stone"
    ELSE "other"

\* map.setdefault(k, v) and map[k] = v
SetDefault(map, k, v) == IF k \in DOMAIN map THEN map ELSE (k :> v) @@ map

SetItem(map, k, v) == (k :> v) @@ map

\* map.get(k, default)
GetOr(map, k, default) == IF k \in DOMAIN map THEN map[k] ELSE default

\* lines 113 to 135: the record of one group row and one pair, if any
PairRecords(g, gr, pr, cmap, smap) ==
    LET job_row == g[gr + 1]
        desc_row == IF gr + 1 < NRows(g) THEN g[gr + 2] ELSE NoneRow(g)
        concrete_row == GetOr(cmap, gr, NoneRow(g))
        stone_row == GetOr(smap, gr, NoneRow(g))
        job == _safe_get(job_row, pr.day_col)
        trucks == _safe_get(job_row, pr.date_col)
        desc == _safe_get(desc_row, pr.day_col)
        concrete == _safe_get(concrete_row, pr.day_col)
        concrete_yds == _safe_get(concrete_row, pr.date_col)
        stone == _safe_get(stone_row, pr.day_col)
        stone_lds == _safe_get(stone_row, pr.date_col)
    IN IF \E x \in {job, trucks, desc, concrete, concrete_yds, stone, stone_lds} :
             _has_value(x)
       THEN <<[Date |-> pr.iso_date,
               Job |-> _clean_str(job),
               Trucks |-> _normalize_trucks(_clean_str(trucks)),
               Description |-> _clean_str(desc),
               Concrete |-> _clean_str(concrete),
               ConcreteYds |-> _clean_str(concrete_yds),
               Stone |-> _clean_str(stone),
               StoneLds |-> _clean_str(stone_lds),
               gr |-> gr,
               date_col |-> pr.date_col]>>
       ELSE <<>>

RECURSIVE GroupRecords(_, _, _, _, _)
GroupRecords(g, gr, prs, cmap, smap) ==
    IF prs = <<>> THEN <<>>
    ELSE PairRecords(g, gr, Head(prs), cmap, smap)
         \o GroupRecords(g, gr, Tail(prs), cmap, smap)

RECURSIVE SheetRecords(_, _, _, _, _)
SheetRecords(g, grs, prs, cmap, smap) ==
    IF grs = <<>> THEN <<>>
    ELSE GroupRecords(g, Head(grs), prs, cmap, smap)
         \o SheetRecords(g, Tail(grs), prs, cmap, smap)

-----------------------------------------------------------------------------
(* Bounds of the inputs the pure functions are applied to.                 *)

MaxRawLen == 4          \* raw job names: every text of at most this length
MaxDigitLen == 10       \* truck fields of digits: at most this length
MaxAlnumLen == 4        \* truck fields of letters, digits, delimiters

\* every sequence over alphabet cs of length at most n
SeqsUpTo(cs, n) == UNION {[1..m -> cs] : m \in 0..n}

NormAlphabet == {"A", "b", " ", ","}
NormInputs == {None, NaN} \cup {TxtSeq(s) : s \in SeqsUpTo(NormAlphabet, MaxRawLen)}

TruckInputs ==
    {Chars("125126"), Chars("ABC123"), Chars("12AB34CD")}
    \cup SeqsUpTo({"0", "1"}, MaxDigitLen)
    \cup SeqsUpTo({"1", "A", "b", ",", "#"}, MaxAlnumLen)

NormIdle == raw = None /\ key = <<>> /\ npc = "idle"
TruckIdle == truck = <<>> /\ trOut = <<>> /\ tpc = "idle"

-----------------------------------------------------------------------------
(* The timesheets the extractor is run on.  A sheet is built from: the     *)
(* number of rows above the header (the last of them carries the date      *)
(* labels), an optional title row, a header row, and data rows filled in   *)
(* under the header's columns.                                             *)

MaxLead == 15           \* rows above the header, at most
MaxDataRows == 2        \* data rows below the header, at most

HdrFull == <<"Employee", "Trk #", "Job", "H", "W/S", "D", "Trk #", "Job", "H", "W/S", "D">>
HdrNarrow == <<"Employee", "Trk #", "Job", "H", "Trk #", "Job", "Hours", "D">>
HdrNoTrk == <<"Employee", "Job", "H">>
HdrSkip == <<"Employee Name", "Trk #", "Job", "D", "trk", "H", "Job #">>
HdrContains == <<" employee", "Trk #", "Job", "H", "Day2 Trk", "D", "Job", "H">>
HdrPatterns == <<HdrFull, HdrNarrow, HdrNoTrk, HdrSkip, HdrContains>>

\* a data row: the employee cell and, per day block, job, hours and driving
RowKinds == <<
    [emp |-> Txt("J Smith"), job |-> <<Txt("ARA3A"), Txt("B7")>>,
     hrs |-> <<Txt("8"), Txt("0")>>, drv |-> <<NaN, Txt("2")>>],
    [emp |-> Txt("A Lee"), job |-> <<Txt("Column 8"), Txt("ARA3A")>>,
     hrs |-> <<Txt("8"), Txt("7.5")>>, drv |-> <<Txt("1"), NaN>>],
    [emp |-> Txt("Total"), job |-> <<Txt("ARA3A"), Txt("ARA3A")>>,
     hrs |-> <<Txt("16"), Txt("8")>>, drv |-> <<NaN, NaN>>],
    [emp |-> NaN, job |-> <<Txt("ARA3A"), Txt("B7")>>,
     hrs |-> <<Txt("8"), Txt("8")>>, drv |-> <<NaN, NaN>>],
    [emp |-> Txt("J Smith"), job |-> <<NaN, Txt("job")>>,
     hrs |-> <<Txt("8"), Txt("8")>>, drv |-> <<Txt("0"), Txt("0")>>],
    [emp |-> Txt(" B Roy "), job |-> <<Txt(" ara3a "), Txt("ARA3A")>>,
     hrs |-> <<Txt("x"), Txt("0.0")>>, drv |-> <<Txt("0"), NaN>>],
    [emp |-> Txt("A Lee"), job |-> <<Txt("ARA3A"), Txt("COLUMN13")>>,
     hrs |-> <<Txt("8 hrs"), Txt("4")>>, drv |-> <<Txt("2"), Txt("2")>>],
    [emp |-> Txt("  "), job |-> <<Txt("B7"), Txt("Columns")>>,
     hrs |-> <<Txt("8"), NaN>>, drv |-> <<NaN, Txt("1.5")>>] >>

\* the data rows of the sheets that vary the layout only
LayoutRowSeqs == {<<>>, <<3>>, <<4, 1>>, <<1, 7>>, <<3, 8>>, <<1, 7, 7>>}

DateLabels == <<Txt("9/8/2025"), Txt("9/9/2025")>>

HasTrk(label) == Contains(StrLower(Chars(label)), Chars("trk"))

\* the day block (1 or 2) that column c of a header lies in
BlockOf(labels, c) ==
    LET n == Cardinality({x \in 1..c : HasTrk(labels[x])}) IN
    IF n <= 1 THEN 1 ELSE 2

LabelRow(labels) == [c \in 1..Len(labels) |-> Txt(labels[c])]

BlankRow(labels) == [c \in 1..Len(labels) |-> NaN]

TitleRow(labels) ==
    [c \in 1..Len(labels) |-> IF c = 1 THEN Txt("Employee Timesheet") ELSE NaN]

\* dl = "ok": the date over the block start; "shift": one column to the
\* right of it; "junk": a text that is no date
DateRow(labels, dl) ==
    [c \in 1..Len(labels) |->
        IF dl = "ok" /\ HasTrk(labels[c]) THEN DateLabels[BlockOf(labels, c)]
        ELSE IF dl = "junk" /\ HasTrk(labels[c]) THEN Txt("xx")
        ELSE IF dl = "shift" /\ c > 1 /\ HasTrk(labels[c - 1])
             THEN DateLabels[BlockOf(labels, c - 1)]
        ELSE NaN]

DataRow(labels, kind) ==
    [c \in 1..Len(labels) |->
        LET label == StrLower(StrStrip(Chars(labels[c])))
            b == BlockOf(labels, c)
        IN IF c = 1 THEN kind.emp
           ELSE IF HasTrk(labels[c]) THEN Txt("12")
           ELSE IF StartsWith(label, Chars("job")) THEN kind.job[b]
           ELSE IF StartsWith(label, Chars("h")) THEN kind.hrs[b]
           ELSE IF label = Chars("d") THEN kind.drv[b]
           ELSE NaN]

GridOf(in) ==
    LET labels == HdrPatterns[in.hdr] IN
    (IF in.title THEN <<TitleRow(labels)>> ELSE <<>>)
    \o [i \in 1..in.lead |-> IF i = in.lead THEN DateRow(labels, in.dl)
                             ELSE BlankRow(labels)]
    \o <<LabelRow(labels)>>
    \o [i \in 1..Len(in.rows) |-> DataRow(labels, RowKinds[in.rows[i]])]

\* three families: sheets that vary the layout, sheets that vary the data
\* rows, and sheets that vary the date labels
TsInputs ==
    {in \in [lead : 0..MaxLead, title : BOOLEAN, hdr : 1..Len(HdrPatterns),
             rows : SeqsUpTo(1..Len(RowKinds), MaxDataRows) \cup LayoutRowSeqs,
             dl : {"ok", "shift", "junk"}, incl : BOOLEAN] :
        \/ in.rows \in LayoutRowSeqs /\ ~in.incl /\ in.dl = "ok"
        \/ in.lead = 1 /\ ~in.title /\ in.dl = "ok"
        \/ in.lead <= 1 /\ ~in.title /\ in.rows \in LayoutRowSeqs /\ ~in.incl}

TsIdle ==
    /\ grid = <<>>
    /\ include_driving = FALSE
    /\ tspc = "idle"
    /\ header_row_idx = NoIdx
    /\ day_start_cols = <<>>
    /\ first_emp_row = NoIdx
    /\ blk = 0
    /\ records = <<>>
    /\ ts_err = ""
    /\ ts_files = {}
    /\ summary = <<>>
    /\ ts_out = ""
    /\ ts_locked = {}

-----------------------------------------------------------------------------
(* The tables combine_daily_reports is run on.  The timesheet summary has  *)
(* date cells; the job sheet table has the ISO texts process_job_sheet     *)
(* writes, or a text that is no date.  Job names: "abc" and "abcde" are    *)
(* both similar to "abcd" (ratios 6/7 and 8/9), only "abcde" is similar to *)
(* "abcdef" (10/11, against 6/9 for "abc").                                *)

MaxLeft == 2            \* rows of the timesheet summary
MaxRight == 2           \* rows of the job sheet table

TsCols == <<"Date", "Job", "TotalHours">>
JsCols == <<"Date", "Job", "Truck(s)">>

\* a row of a table with the columns cols: its date, its job, its other cell
RowOf(cols, d, j, x) ==
    [c \in Range(cols) |-> IF c = "Date" THEN d ELSE IF c = "Job" THEN j ELSE x]

LeftRows ==
    {RowOf(TsCols, [k |-> "date", s |-> Chars(r[1])], r[2], Txt(r[3])) :
        r \in { <<"20250908", Txt("abcd"), "8">>,
                <<"20250908", Txt("ABCD"), "4">>,
                <<"20250909", Txt("abcd"), "8">>,
                <<"20250908", NaN, "8">>,
                <<"20250908", Txt("abcdef"), "8">> }}
    \cup {RowOf(TsCols, NaN, Txt("abcd"), Txt("8"))}

RightRows ==
    {RowOf(JsCols, Txt(r[1]), r[2], Txt(r[3])) :
        r \in { <<"2025-09-08", Txt("abc"), "12">>,
                <<"2025-09-08", Txt("abcde"), "34">>,
                <<"2025-09-08", Txt("Abcd,"), "12">>,
                <<"2025-09-08", Txt("abcd"), "34">>,
                <<"2025-09-09", Txt("abc"), "12">>,
                <<"xx", Txt("abc"), "12">>,
                <<"2025-09-08", NaN, "12">>,
                <<"2025-09-08", [k |-> "num", s |-> Chars("77")], "12">> }}

\* every pair of tables of the rows above, and one-row tables of every
\* choice of columns
CombInputs ==
    {[ts |-> [cols |-> TsCols, rows |-> l], js |-> [cols |-> JsCols, rows |-> r]] :
        l \in SeqsUpTo(LeftRows, MaxLeft), r \in SeqsUpTo(RightRows, MaxRight)}
    \cup {[ts |-> [cols |-> a, rows |-> <<RowOf(a, Txt("2025-09-08"), Txt("abc"), Txt("12"))>>],
           js |-> [cols |-> b, rows |-> <<RowOf(b, Txt("2025-09-08"), Txt("abc"), Txt("12"))>>]] :
             a \in {TsCols, <<"Job", "TotalHours">>, <<"Date", "TotalHours">>, <<"TotalHours">>},
             b \in {<<"Date", "Job", "_5">>, <<"Job", "Truck(s)">>, <<"Date", "Truck(s)">>,
                    <<"Truck(s)">>}}

NoError == [who |-> "", missing |-> {}]

CombIdle ==
    /\ ts = NoTable
    /\ js = NoTable
    /\ fuzzy = FALSE
    /\ cpc = "idle"
    /\ ts_prep = NoTable
    /\ js_prep = NoTable
    /\ mapping = <<>>
    /\ merged = NoTable
    /\ final_df = NoTable
    /\ sort_index = <<>>
    /\ comb_err = NoError
    /\ out_files = {}
    /\ sheets = <<>>
    /\ comb_out = ""
    /\ comb_locked = {}

SheetIdle == job_vals = <<>> /\ sheet_names = <<>> /\ shpc = "idle"

DateIdle ==
    /\ date_text = <<>>
    /\ timesheet_path = <<>>
    /\ now_year = 0
    /\ date_out = NoDate
    /\ dpc = "idle"

PipeIdle ==
    /\ run = 0
    /\ wb = NoBook
    /\ disk = NoFiles
    /\ p_locked = {}
    /\ ppc = "idle"
    /\ report = NoReport

JobIdle ==
    /\ sheet = <<>>
    /\ jspc = "idle"
    /\ pairs = <<>>
    /\ group_rows = <<>>
    /\ scan_i = 0
    /\ current_group = NoIdx
    /\ concrete_map = <<>>
    /\ stone_map = <<>>
    /\ js_records = <<>>

UpIdle == up = <<>> /\ folder = <<>> /\ up_lost = {}

OthersIdle == SheetIdle /\ DateIdle /\ PipeIdle

-----------------------------------------------------------------------------
(* SpecNorm: the job-name normalizer applied to every bounded raw name.    *)

InitNorm ==
    /\ raw \in NormInputs
    /\ key = <<>>
    /\ npc = "in"
    /\ JobIdle
    /\ UpIdle
    /\ TruckIdle
    /\ TsIdle
    /\ CombIdle
    /\ OthersIdle

NormJob ==
    /\ npc = "in"
    /\ key' = _norm_job(raw)
    /\ npc' = "out"
    /\ UNCHANGED <<raw, jobVars, upVars, truckVars, tsVars, combVars, sheetVars, dateVars, pipeVars>>

NextNorm == NormJob

SpecNorm == InitNorm /\ [][NextNorm]_vars

(* SpecTrucks: truck-id normalization applied to every bounded field.      *)

InitTrucks ==
    /\ truck \in TruckInputs
    /\ trOut = <<>>
    /\ tpc = "in"
    /\ NormIdle
    /\ JobIdle
    /\ UpIdle
    /\ TsIdle
    /\ CombIdle
    /\ OthersIdle

NormalizeTrucks ==
    /\ tpc = "in"
    /\ trOut' = _normalize_trucks(truck)
    /\ tpc' = "out"
    /\ UNCHANGED <<truck, normVars, jobVars, upVars, tsVars, combVars, sheetVars, dateVars, pipeVars>>

NextTrucks == NormalizeTrucks

SpecTrucks == InitTrucks /\ [][NextTrucks]_vars

-----------------------------------------------------------------------------
(* SpecTimesheet: process_timesheet on every sheet of TsInputs.            *)

InitTimesheet ==
    /\ \E in \in TsInputs : grid = GridOf(in) /\ include_driving = in.incl
    /\ tspc = "start"
    /\ header_row_idx = NoIdx
    /\ day_start_cols = <<>>
    /\ first_emp_row = NoIdx
    /\ blk = 0
    /\ records = <<>>
    /\ ts_err = ""
    /\ ts_files = {}
    /\ summary = <<>>
    /\ ts_out = ""
    /\ ts_locked = {}
    /\ NormIdle
    /\ JobIdle
    /\ UpIdle
    /\ TruckIdle
    /\ CombIdle
    /\ OthersIdle

\* steps 3 to 7: the header row, the day blocks, the first employee row
TsLocate ==
    /\ tspc = "start"
    /\ LET h == ScanHeader(grid, 0) IN
       IF h = NoIdx
       THEN /\ tspc' = "error"
            /\ ts_err' = "Couldn't find header row containing 'Employee'."
            /\ UNCHANGED <<header_row_idx, day_start_cols, first_emp_row>>
       ELSE IF DayStartCols(HeaderLabels(grid, h), 0) = <<>>
       THEN /\ tspc' = "error"
            /\ ts_err' = "Couldn't detect day blocks (no 'Trk' column in header)."
            /\ header_row_idx' = h
            /\ UNCHANGED <<day_start_cols, first_emp_row>>
       ELSE /\ tspc' = "blocks"
            /\ header_row_idx' = h
            /\ day_start_cols' = DayStartCols(HeaderLabels(grid, h), 0)
            /\ first_emp_row' = FirstEmpRow(grid, h)
            /\ UNCHANGED ts_err
    /\ UNCHANGED <<grid, include_driving, blk, records, ts_files, summary, ts_out, ts_locked, normVars, jobVars, upVars, truckVars, combVars, sheetVars, dateVars, pipeVars>>

\* step 8, one day block: its columns, its date, its employee rows.  With the
\* header in row 0 there is no date label row, and the neighbour search
\* indexes the sheet with None: an exception that is none of the extractor's.
TsBlock ==
    /\ tspc = "blocks"
    /\ blk < Len(day_start_cols)
    /\ LET day_col == day_start_cols[blk + 1]
           cols == BlockCols(HeaderLabels(grid, header_row_idx), day_col)
       IN IF cols.job_col = NoIdx \/ cols.hours_col = NoIdx
          THEN /\ blk' = blk + 1
               /\ UNCHANGED <<tspc, records, ts_err>>
          ELSE IF header_row_idx = 0 /\ NeighbourInRange(grid, day_col)
          THEN /\ tspc' = "error"
               /\ ts_err' = "internal"
               /\ records' = <<>>
               /\ UNCHANGED blk
          ELSE /\ blk' = blk + 1
               /\ records' = records \o BlockRecords(grid, first_emp_row, day_col, cols,
                                 IF header_row_idx = 0 THEN NoDate
                                 ELSE BlockDate(grid, header_row_idx - 1, day_col),
                                 include_driving)
               /\ UNCHANGED <<tspc, ts_err>>
    /\ UNCHANGED <<grid, include_driving, header_row_idx, day_start_cols, first_emp_row,
                   ts_files, summary, ts_out, ts_locked, normVars, jobVars, upVars, truckVars, combVars, sheetVars, dateVars, pipeVars>>

\* step 9: no record is an error; otherwise the long records are written,
\* then the summary, which falls back to two other paths when its path is
\* locked.  The lock state of the output folder is the environment's choice.
TsFinish ==
    /\ tspc = "blocks"
    /\ blk = Len(day_start_cols)
    /\ IF NoRecords(records)
       THEN /\ tspc' = "error"
            /\ ts_err' = "No records parsed. Check the sheet layout and header detection."
            /\ UNCHANGED <<ts_files, summary, ts_out, ts_locked>>
       ELSE \E lk \in SUBSET TsPaths :
            /\ ts_locked' = lk
            /\ summary' = Summarize(records)
            /\ IF out_csv \in lk
               THEN /\ tspc' = "error"
                    /\ ts_err' = "PermissionError"
                    /\ UNCHANGED <<ts_files, ts_out>>
               ELSE IF summary_target(lk) = ""
               THEN /\ tspc' = "error"
                    /\ ts_err' = "PermissionError"
                    /\ ts_files' = {out_csv}
                    /\ UNCHANGED ts_out
               ELSE /\ tspc' = "done"
                    /\ ts_files' = {out_csv, summary_target(lk)}
                    /\ ts_out' = summary_target(lk)
                    /\ UNCHANGED ts_err
    /\ UNCHANGED <<grid, include_driving, header_row_idx, day_start_cols, first_emp_row,
                   blk, records, normVars, jobVars, upVars, truckVars, combVars, sheetVars, dateVars, pipeVars>>

NextTimesheet == TsLocate \/ TsBlock \/ TsFinish

SpecTimesheet == InitTimesheet /\ [][NextTimesheet]_vars

-----------------------------------------------------------------------------
(* SpecCombine: combine_daily_reports on every pair of tables of           *)
(* CombInputs, with and without fuzzy reconciliation.                      *)

InitCombine ==
    /\ \E in \in CombInputs : ts = in.ts /\ js = in.js
    /\ fuzzy \in BOOLEAN
    /\ cpc = "start"
    /\ ts_prep = NoTable
    /\ js_prep = NoTable
    /\ mapping = <<>>
    /\ merged = NoTable
    /\ final_df = NoTable
    /\ sort_index = <<>>
    /\ comb_err = NoError
    /\ out_files = {}
    /\ sheets = <<>>
    /\ comb_out = ""
    /\ comb_locked = {}
    /\ NormIdle
    /\ JobIdle
    /\ UpIdle
    /\ TruckIdle
    /\ TsIdle
    /\ OthersIdle

\* the two tables are prepared, the timesheet summary first; a table
\* without a required column raises ValueError("<table> missing columns: ...")
CombPrepare ==
    /\ cpc = "start"
    /\ IF missing(ts) # {}
       THEN /\ cpc' = "error"
            /\ comb_err' = [who |-> "Timesheet summary", missing |-> missing(ts)]
            /\ UNCHANGED <<ts_prep, js_prep>>
       ELSE IF missing(js) # {}
       THEN /\ cpc' = "error"
            /\ comb_err' = [who |-> "Job sheet table", missing |-> missing(js)]
            /\ UNCHANGED <<ts_prep, js_prep>>
       ELSE /\ cpc' = "prepared"
            /\ ts_prep' = _prepare_timesheet_df(ts)
            /\ js_prep' = _prepare_job_sheet_df(js)
            /\ UNCHANGED comb_err
    /\ UNCHANGED <<ts, js, fuzzy, mapping, merged, final_df, sort_index, out_files,
                   sheets, comb_out, comb_locked,
                   normVars, jobVars, upVars, truckVars, tsVars, sheetVars, dateVars, pipeVars>>

\* the fuzzy mapping is computed and applied to the left keys, the tables
\* are merged and the display job is chosen
CombReconcile ==
    /\ cpc = "prepared"
    /\ mapping' = IF fuzzy THEN _fuzzy_reconcile(ts_prep, js_prep) ELSE <<>>
    /\ ts_prep' = ApplyMapping(ts_prep, mapping')
    /\ merged' = WithJob(Merge(ts_prep', js_prep))
    /\ cpc' = "merged"
    /\ UNCHANGED <<ts, js, fuzzy, js_prep, final_df, sort_index, comb_err, out_files,
                   sheets, comb_out, comb_locked,
                   normVars, jobVars, upVars, truckVars, tsVars, sheetVars, dateVars, pipeVars>>

\* the columns are selected and renamed, the rows sorted
CombSort ==
    /\ cpc = "merged"
    /\ final_df' = SortValues(SelectColumns(merged))
    /\ sort_index' = SortIndex(SelectColumns(merged).rows)
    /\ cpc' = "sorted"
    /\ UNCHANGED <<ts, js, fuzzy, ts_prep, js_prep, mapping, merged, comb_err, out_files,
                   sheets, comb_out, comb_locked,
                   normVars, jobVars, upVars, truckVars, tsVars, sheetVars, dateVars, pipeVars>>

\* the workbook is written, with one worksheet or one per job; the CSV next
\* to it in single-sheet mode when asked.  A path another process holds
\* locked raises PermissionError, which leaves the function.
CombWrite ==
    /\ cpc = "sorted"
    /\ \E per_sheet \in BOOLEAN, write_csv \in BOOLEAN, lk \in SUBSET {xlsx_path, csv_path} :
          /\ comb_locked' = lk
          /\ IF xlsx_path \in lk
             THEN /\ cpc' = "locked"
                  /\ UNCHANGED <<out_files, sheets, comb_out>>
             ELSE IF ~per_sheet /\ write_csv /\ csv_path \in lk
             THEN /\ cpc' = "locked"
                  /\ out_files' = {xlsx_path}
                  /\ sheets' = SingleSheet(final_df)
                  /\ UNCHANGED comb_out
             ELSE /\ cpc' = "done"
                  /\ out_files' = {xlsx_path}
                                   \cup (IF ~per_sheet /\ write_csv THEN {csv_path} ELSE {})
                  /\ sheets' = IF per_sheet THEN PerSheet(final_df) ELSE SingleSheet(final_df)
                  /\ comb_out' = xlsx_path
    /\ UNCHANGED <<ts, js, fuzzy, ts_prep, js_prep, mapping, merged, final_df, sort_index,
                   comb_err, normVars, jobVars, upVars, truckVars, tsVars, sheetVars, dateVars, pipeVars>>

NextCombine == CombPrepare \/ CombReconcile \/ CombSort \/ CombWrite

SpecCombine == InitCombine /\ [][NextCombine]_vars

-----------------------------------------------------------------------------
(* SpecPipeline: combine_workbook invoked up to MaxRuns times on one       *)
(* output folder, each time on a workbook of Books, with any of the        *)
(* existing intermediate files locked by another process.                  *)

MaxRuns == 2            \* invocations on the same output folder
MaxBooks == 2           \* distinct workbooks

Books == [id : 1..MaxBooks, exists : BOOLEAN, ts_ok : BOOLEAN, js_empty : BOOLEAN]

InitPipeline ==
    /\ run = 0
    /\ wb = NoBook
    /\ disk = NoFiles
    /\ p_locked = {}
    /\ ppc = "ready"
    /\ report = NoReport
    /\ NormIdle
    /\ JobIdle
    /\ UpIdle
    /\ TruckIdle
    /\ TsIdle
    /\ CombIdle
    /\ SheetIdle
    /\ DateIdle

\* lines 48 to 54: an invocation starts; a missing workbook raises
PipeStart ==
    /\ ppc \in {"ready", "done", "failed"}
    /\ run < MaxRuns
    /\ run' = run + 1
    /\ wb' \in Books
    /\ p_locked' \in SUBSET {p \in PipePaths \ {combined_path} : Exists(disk, p)}
    /\ ppc' = IF wb'.exists THEN "timesheet" ELSE "failed"
    /\ report' = NoReport
    /\ UNCHANGED <<disk, normVars, jobVars, upVars, truckVars, tsVars, combVars, sheetVars, dateVars>>

\* line 57: process_timesheet; the path it returns is dropped
PipeTimesheet ==
    /\ ppc = "timesheet"
    /\ disk' = TimesheetWrites(disk, run, wb, p_locked)
    /\ ppc' = IF TimesheetRaises(wb, p_locked) THEN "failed" ELSE "jobsheet"
    /\ UNCHANGED <<run, wb, p_locked, report, normVars, jobVars, upVars, truckVars, tsVars, combVars,
                   sheetVars, dateVars>>

\* line 58: process_job_sheet
PipeJobSheet ==
    /\ ppc = "jobsheet"
    /\ disk' = JobSheetWrites(disk, run, wb, p_locked)
    /\ ppc' = IF JobSheetRaises(wb, p_locked) THEN "failed" ELSE "combine"
    /\ UNCHANGED <<run, wb, p_locked, report, normVars, jobVars, upVars, truckVars, tsVars, combVars,
                   sheetVars, dateVars>>

\* lines 63 to 71: combine_daily_reports on the two fixed paths: each must
\* exist; a file another process holds open is read or refuses the read
PipeCombine ==
    /\ ppc = "combine"
    /\ \E readable \in BOOLEAN :
          IF /\ Exists(disk, out_xlsx)
             /\ Exists(disk, job_sheet_norm_path)
             /\ (readable \/ {out_xlsx, job_sheet_norm_path} \cap p_locked = {})
          THEN /\ report' = [ts |-> disk[out_xlsx], js |-> disk[job_sheet_norm_path]]
               /\ disk' = [disk EXCEPT ![combined_path] = Written(run, wb)]
               /\ ppc' = "done"
          ELSE /\ ppc' = "failed"
               /\ UNCHANGED <<report, disk>>
    /\ UNCHANGED <<run, wb, p_locked, normVars, jobVars, upVars, truckVars, tsVars, combVars,
                   sheetVars, dateVars>>

NextPipeline == PipeStart \/ PipeTimesheet \/ PipeJobSheet \/ PipeCombine

SpecPipeline == InitPipeline /\ [][NextPipeline]_vars

-----------------------------------------------------------------------------
(* SpecDates: the pattern strategy of parse_date_label on the date labels  *)
(* of DateTexts, in a run of process_timesheet on a file of TimesheetPaths *)
(* in a year of NowYears.                                                  *)

MaxExtraDigits == 2     \* digits of a year group beyond its first two

DateTexts ==
    {StrStrip(Chars(mo) \o Chars(sep) \o Chars(d) \o y) :
        mo \in {"9", "09", "13"}, sep \in {"/", "-"}, d \in {"8", "31"},
        y \in {<<>>, Chars("/7")}
              \cup {Chars("/25") \o e : e \in SeqsUpTo({"0"}, MaxExtraDigits)}
              \cup {Chars("-2025")}}
    \cup {Chars("xx"), Chars("wk of 9/8"), Chars("2/29"), Chars("2/29/24"), Chars("2/29/25")}

TimesheetPaths == {Chars("Timesheet 9-7-24 thru 9-13-24.xlsx"), Chars("Timesheet.xlsx")}

NowYears == {2024, 2026}

InitDates ==
    /\ date_text \in DateTexts
    /\ timesheet_path \in TimesheetPaths
    /\ now_year \in NowYears
    /\ date_out = NoDate
    /\ dpc = "in"
    /\ NormIdle
    /\ JobIdle
    /\ UpIdle
    /\ TruckIdle
    /\ TsIdle
    /\ CombIdle
    /\ SheetIdle
    /\ PipeIdle

ResolvePattern ==
    /\ dpc = "in"
    /\ date_out' = pattern_date(date_text, now_year)
    /\ dpc' = "out"
    /\ UNCHANGED <<date_text, timesheet_path, now_year,
                   normVars, jobVars, upVars, truckVars, tsVars, combVars, sheetVars, pipeVars>>

NextDates == ResolvePattern

SpecDates == InitDates /\ [][NextDates]_vars

-----------------------------------------------------------------------------
(* SpecSheets: the worksheet names of the per-sheet workbook, for every    *)
(* Job column of at most MaxJobs cells of SheetJobPool that is in the      *)
(* order the sort of the output table leaves it in.                        *)

MaxJobs == 3            \* rows of the output table

\* a job name of 32 characters that ends in c
LongName(c) == [i \in 1..32 |-> IF i = 32 THEN c ELSE "x"]

SheetJobPool ==
    {NaN, Txt("UnknownJob"), Txt("All"), Txt("all"), Txt("a/b"), Txt("ab"), Txt("[]"),
     Txt("Sheet"), [k |-> "num", s |-> Chars("12")], Txt("12"),
     TxtSeq(LongName("a")), TxtSeq(LongName("b")),
     TxtSeq([i \in 1..31 |-> IF i = 30 THEN "_" ELSE IF i = 31 THEN "2" ELSE "x"])}

SheetInputs ==
    {col \in SeqsUpTo(SheetJobPool, MaxJobs) :
        \A i, j \in 1..Len(col) :
            i < j => ~StrLess(StrLower(PyStr(col[j])), StrLower(PyStr(col[i])))}

InitSheets ==
    /\ job_vals \in SheetInputs
    /\ sheet_names = <<>>
    /\ shpc = "in"
    /\ NormIdle
    /\ JobIdle
    /\ UpIdle
    /\ TruckIdle
    /\ TsIdle
    /\ CombIdle
    /\ DateIdle
    /\ PipeIdle

WriteSheets ==
    /\ shpc = "in"
    /\ sheet_names' = SheetNames(job_vals)
    /\ shpc' = "out"
    /\ UNCHANGED <<job_vals, normVars, jobVars, upVars, truckVars, tsVars, combVars, dateVars, pipeVars>>

NextSheets == WriteSheets

SpecSheets == InitSheets /\ [][NextSheets]_vars

-----------------------------------------------------------------------------
(* SpecJobSheet: process_job_sheet on every sheet of JobSheets: a header   *)
(* row and rows of three cells, the label in column 0.                     *)

MaxSheetRows == 3       \* rows below the header row, at most

SheetHeaders == <<
    <<NaN, Txt("Monday"), Txt("9/8/2025")>>,
    <<Txt("9/8/2025"), Txt("Monday"), Txt("9/9/2025")>>,
    <<NaN, Txt("x-y"), Txt("Sep 8 2025")>>,
    <<Txt("13/9/2025"), Txt("2/30/2025"), Txt(" 9/8/2025 ")>> >>

SheetRowKinds == {
    <<Txt("Job & Truck"), Txt("ARA3A"), Txt("125126")>>,
    <<Txt("Concrete Job & Truck"), NaN, NaN>>,
    <<NaN, Txt("pour"), NaN>>,
    <<Txt("Concrete & Yds"), Txt("4000psi"), Txt("12")>>,
    <<Txt("Concrete"), Txt(" nan "), Txt("  ")>>,
    <<Txt("Stone & Lds"), Txt("57s"), Txt("3,4")>>,
    <<Txt("Stone/Concrete"), Txt("mix"), Txt("1")>>,
    <<NaN, NaN, NaN>> }

\* every body under the usual header, the short bodies under the other
\* headers, and the sheet without a row
JobSheets ==
    {<<SheetHeaders[1]>> \o b : b \in SeqsUpTo(SheetRowKinds, MaxSheetRows)}
    \cup {<<SheetHeaders[h]>> \o b : h \in 2..4, b \in SeqsUpTo(SheetRowKinds, 2)}
    \cup {<<>>}

InitJobSheet ==
    /\ sheet \in JobSheets
    /\ jspc = "start"
    /\ pairs = <<>>
    /\ group_rows = <<>>
    /\ scan_i = 0
    /\ current_group = NoIdx
    /\ concrete_map = <<>>
    /\ stone_map = <<>>
    /\ js_records = <<>>
    /\ NormIdle
    /\ TruckIdle
    /\ TsIdle
    /\ CombIdle
    /\ OthersIdle
    /\ UpIdle

\* lines 51 to 84: a sheet without rows gives the empty table; otherwise
\* the pairs of the header row and the group rows
JsLocate ==
    /\ jspc = "start"
    /\ IF NRows(sheet) = 0
       THEN /\ jspc' = "done"
            /\ UNCHANGED <<pairs, group_rows>>
       ELSE /\ jspc' = "scan"
            /\ pairs' = Pairs(sheet[1])
            /\ group_rows' = GroupRowsOf(sheet)
    /\ UNCHANGED <<sheet, scan_i, current_group, concrete_map, stone_map, js_records,
                   normVars, upVars, truckVars, tsVars, combVars, sheetVars, dateVars, pipeVars>>

\* lines 94 to 103: one row of the scan of column 0
JsScan ==
    /\ jspc = "scan"
    /\ scan_i < NRows(sheet)
    /\ LET kind == row_kind(PyStr(Cell(sheet, scan_i, 0)), current_group) IN
       /\ current_group' = IF kind = "job" THEN scan_i ELSE current_group
       /\ concrete_map' =
             IF kind = "job" THEN SetDefault(concrete_map, scan_i, NoneRow(sheet))
             ELSE IF kind = "concrete"
             THEN SetItem(concrete_map, current_group, sheet[scan_i + 1])
             ELSE concrete_map
       /\ stone_map' =
             IF kind = "job" THEN SetDefault(stone_map, scan_i, NoneRow(sheet))
             ELSE IF kind = "stone"
             THEN SetItem(stone_map, current_group, sheet[scan_i + 1])
             ELSE stone_map
    /\ scan_i' = scan_i + 1
    /\ UNCHANGED <<sheet, jspc, pairs, group_rows, js_records,
                   normVars, upVars, truckVars, tsVars, combVars, sheetVars, dateVars, pipeVars>>

\* lines 105 to 137: the records of every group row and pair
JsEmit ==
    /\ jspc = "scan"
    /\ scan_i = NRows(sheet)
    /\ js_records' = SheetRecords(sheet, group_rows, pairs, concrete_map, stone_map)
    /\ jspc' = "done"
    /\ UNCHANGED <<sheet, pairs, group_rows, scan_i, current_group, concrete_map, stone_map,
                   normVars, upVars, truckVars, tsVars, combVars, sheetVars, dateVars, pipeVars>>

NextJobSheet == JsLocate \/ JsScan \/ JsEmit

SpecJobSheet == InitJobSheet /\ [][NextJobSheet]_vars

-----------------------------------------------------------------------------
(* C7: the job-name normalizer maps None and empty text to the empty      *)
(* string and otherwise returns the input trimmed, trailing commas         *)
(* stripped, whitespace runs collapsed to one space, lower-cased: the key  *)
(* has no leading or trailing whitespace, no trailing comma, no run of two *)
(* spaces, no upper-case letter, and its tokens are the input's tokens     *)
(* (leading and interior punctuation included) lower-cased.                *)

C7_TokensAsClaimed(v) ==
    StrSplit(StrLower(RStripSet(StrStrip(PyStr(v)), {","})))

C7_NormalizerAsClaimed ==
    npc = "out" =>
        /\ (raw.k = "none" \/ (raw.k = "str" /\ raw.s = <<>>)) => key = <<>>
        /\ key # <<>> => ~IsSpace(key[1]) /\ ~IsSpace(key[Len(key)])
        /\ key # <<>> => key[Len(key)] # ","
        /\ ~Contains(key, <<" ", " ">>)
        /\ \A i \in 1..Len(key) : ~IsUpper(key[i])
        /\ raw.k # "none" => StrSplit(key) = C7_TokensAsClaimed(raw)

-----------------------------------------------------------------------------
(* C8 as claimed: "125126" gives "125, 126", "ABC123" and "12AB34CD" are   *)
(* left unchanged.                                                         *)

C8_TrucksAsClaimed ==
    tpc = "out" =>
        /\ truck = Chars("125126") => trOut = Chars("125, 126")
        /\ truck = Chars("ABC123") => trOut = truck
        /\ truck = Chars("12AB34CD") => trOut = truck

(* C8 amended: "125126" gives "125, 126", the single token "ABC123" is     *)
(* left unchanged, and "12AB34CD", whose two tokens 12AB and 34CD          *)
(* concatenate to the field, gives "12AB, 34CD".                           *)

C8_TrucksExamples ==
    tpc = "out" =>
        /\ truck = Chars("125126") => trOut = Chars("125, 126")
        /\ truck = Chars("ABC123") => trOut = truck
        /\ truck = Chars("12AB34CD") => trOut = Chars("12AB, 34CD")

C8_Witness == tpc = "out" /\ truck = Chars("12AB34CD") /\ trOut # truck

-----------------------------------------------------------------------------
(* Timesheet claims.                                                       *)

\* the locator has returned: header, day blocks and first employee row are set
TsLocated ==
    \/ tspc \in {"blocks", "done"}
    \/ tspc = "error" /\ ts_err \in {"internal", "PermissionError",
                          "No records parsed. Check the sheet layout and header detection."}

\* the rows below the header whose column-0 cell is non-empty and no total
C9_DataRows ==
    {r \in (header_row_idx + 1)..(NRows(grid) - 1) : IsEmployeeCell(Cell(grid, r, 0))}

C9_BlocksInBounds ==
    /\ \A i \in 1..Len(day_start_cols) :
           0 <= day_start_cols[i] /\ day_start_cols[i] < NCols(grid)
    /\ \A i \in 1..(Len(day_start_cols) - 1) : day_start_cols[i] < day_start_cols[i + 1]

C10_Candidates == {i \in 0..(Min(15, NRows(grid)) - 1) : RowHasEmployee(grid, i)}

C10_RowHasTrk(i) ==
    \E c \in 0..(NCols(grid) - 1) :
        Contains(StrLower(StrStrip(PyStr(Cell(grid, i, c)))), Chars("trk"))

C10_LayoutErrors ==
    {"Couldn't find header row containing 'Employee'.",
     "Couldn't detect day blocks (no 'Trk' column in header)."}

(* C10: the header row is the lowest-indexed of the first 15 rows with a   *)
(* cell whose trimmed lower-cased text starts with 'employee'; with no     *)
(* such row, or no 'trk' label in the chosen row, the extraction fails     *)
(* with a layout error, emits no record and writes no file.                *)
C10_HeaderFirstMatch ==
    tspc # "start" =>
        /\ C10_Candidates = {} =>
               tspc = "error" /\ ts_err = "Couldn't find header row containing 'Employee'."
        /\ C10_Candidates # {} =>
               /\ header_row_idx \in C10_Candidates
               /\ \A i \in C10_Candidates : header_row_idx <= i
               /\ ~C10_RowHasTrk(header_row_idx) =>
                      /\ tspc = "error"
                      /\ ts_err = "Couldn't detect day blocks (no 'Trk' column in header)."
        /\ (tspc = "error" /\ ts_err \in C10_LayoutErrors) =>
               records = <<>> /\ ts_files = {}

C10_Witness ==
    /\ tspc = "error"
    /\ ts_err = "Couldn't detect day blocks (no 'Trk' column in header)."
    /\ Cardinality(C10_Candidates) = 2
    /\ \E i \in C10_Candidates : C10_RowHasTrk(i)

\* the day blocks walked so far, as indices into day_start_cols
C4_Walked == 1..(IF tspc = "blocks" THEN blk ELSE Len(day_start_cols))

C4_Cols(b) == BlockCols(HeaderLabels(grid, header_row_idx), day_start_cols[b])

C4_EmployeeRows ==
    {r \in (header_row_idx + 1)..(NRows(grid) - 1) : IsEmployeeCell(Cell(grid, r, 0))}

C4_HasRecord(r, b) ==
    \E i \in 1..Len(records) : records[i].row = r /\ records[i].col = day_start_cols[b]

\* the job cell is present and not a placeholder
C4_JobOk(r, b) ==
    /\ C4_Cols(b).job_col # NoIdx
    /\ NotNa(Cell(grid, r, C4_Cols(b).job_col))
    /\ ~_is_placeholder_job(Cell(grid, r, C4_Cols(b).job_col))

C4_Work(r, b) ==
    IF C4_Cols(b).hours_col = NoIdx THEN 0 ELSE HoursOf(Cell(grid, r, C4_Cols(b).hours_col))

C4_Drive(r, b) ==
    IF C4_Cols(b).driving_col = NoIdx THEN 0
    ELSE HoursOf(Cell(grid, r, C4_Cols(b).driving_col))

C4_ShouldEmit(r, b) == C4_JobOk(r, b) /\ (C4_Work(r, b) # 0 \/ C4_Drive(r, b) # 0)

C4_NoZeroRecord ==
    \A i \in 1..Len(records) :
        ~(/\ records[i].Hours - (IF include_driving THEN records[i].DrivingHours ELSE 0) = 0
          /\ records[i].DrivingHours = 0)

C4_Extracting ==
    \/ tspc \in {"blocks", "done"}
    \/ tspc = "error"
       /\ ts_err \in {"PermissionError",
                      "No records parsed. Check the sheet layout and header detection."}

(* C4 as claimed: a record is emitted for an (employee row, day block) iff *)
(* the job cell is present and no placeholder and work or driving hours    *)
(* are non-zero; no record has both at zero.                               *)
C4_EmitAsClaimed ==
    tspc # "start" =>
        /\ \A b \in C4_Walked : \A r \in C4_EmployeeRows :
               C4_HasRecord(r, b) <=> C4_ShouldEmit(r, b)
        /\ C4_NoZeroRecord

(* What the extractor does guarantee: in a run that does not raise the     *)
(* internal exception, the rule holds for the day blocks in which both a   *)
(* job column and an hours column were located; a day block lacking either *)
(* is skipped whole and emits no record.                                   *)
L4_EmitRule ==
    C4_Extracting =>
        /\ \A b \in C4_Walked : \A r \in C4_EmployeeRows :
               IF C4_Cols(b).job_col # NoIdx /\ C4_Cols(b).hours_col # NoIdx
               THEN C4_HasRecord(r, b) <=> C4_ShouldEmit(r, b)
               ELSE ~C4_HasRecord(r, b)
        /\ C4_NoZeroRecord

L4_Witness ==
    /\ tspc = "done"
    /\ \E b \in C4_Walked : \E r \in C4_EmployeeRows :
           /\ C4_HasRecord(r, b)
           /\ C4_Work(r, b) = 0
           /\ C4_Drive(r, b) # 0
    /\ \E b \in C4_Walked : \E r \in C4_EmployeeRows :
           /\ ~C4_HasRecord(r, b)
           /\ NotNa(Cell(grid, r, C4_Cols(b).job_col))
           /\ _is_placeholder_job(Cell(grid, r, C4_Cols(b).job_col))
           /\ C4_Work(r, b) # 0

\* every day block has been walked without the internal exception
TsWalked == C4_Extracting /\ blk = Len(day_start_cols)

(* C11: a run that found the header and the day blocks and extracted no    *)
(* record fails, with the 'No records parsed' error when every day block   *)
(* was walked, and writes no file and returns no path; a run that returns  *)
(* has records and a summary of at least one row.                          *)
C11_EmptyIsFatal ==
    /\ (tspc \in {"done", "error"} /\ TsLocated /\ records = <<>>) =>
           tspc = "error" /\ ts_files = {} /\ ts_out = ""
    /\ (tspc = "error" /\ TsWalked /\ records = <<>>) =>
           ts_err = "No records parsed. Check the sheet layout and header detection."
    /\ tspc = "done" => records # <<>> /\ summary # <<>>

\* employee rows under a located header, every block walked, and no record
C11_Witness ==
    /\ tspc = "error"
    /\ TsWalked
    /\ C4_EmployeeRows # {}
    /\ records = <<>>
    /\ ts_files = {}

C12_Descriptive ==
    {"Couldn't find header row containing 'Employee'.",
     "Couldn't detect day blocks (no 'Trk' column in header).",
     "No records parsed. Check the sheet layout and header detection."}

(* C12: with no output path locked, a run of the extractor that fails      *)
(* fails with one of the three descriptive errors: header not found, no    *)
(* day blocks, no records.                                                 *)
C12_NoRawFault == (tspc = "error" /\ ts_locked = {}) => ts_err \in C12_Descriptive

\* the day block a record came from
C16_Block(rec) == CHOOSE b \in 1..Len(day_start_cols) : day_start_cols[b] = rec.col

\* the (employee, date, job) of a record, with the row and block it is of
C16_Ident(rec) == <<rec.Employee, rec.Date, rec.Job, rec.row, rec.col>>

\* the records of the same sheet with the toggle set to incl
C16_Records(incl) ==
    UNION {Range(BlockRecords(grid, first_emp_row, day_start_cols[b], C4_Cols(b),
                              BlockDate(grid, header_row_idx - 1, day_start_cols[b]), incl)) :
              b \in {x \in 1..Len(day_start_cols) :
                        C4_Cols(x).job_col # NoIdx /\ C4_Cols(x).hours_col # NoIdx}}

C20_Group(row) ==
    {i \in 1..Len(records) : records[i].Date = row.Date /\ records[i].Job = row.Job}

RECURSIVE C20_Total(_, _)
C20_Total(I, drv) ==
    IF I = {} THEN 0
    ELSE LET i == CHOOSE x \in I : TRUE
         IN (IF drv THEN records[i].DrivingHours ELSE records[i].Hours)
            + C20_Total(I \ {i}, drv)

\* text is the names of S in ascending order, joined by ", "
C20_IsSortedJoin(text, S) ==
    \E q \in [1..Cardinality(S) -> S] :
        /\ \A i \in 1..(Len(q) - 1) : StrLess(q[i], q[i + 1])
        /\ StrJoin(Chars(", "), q) = text

(* C20: the summary has exactly one row per distinct (date, job) of the    *)
(* records; in each row EmployeeCount is the number of distinct employees  *)
(* of the group, TotalHours and TotalDrivingHours are the sums of Hours    *)
(* and DrivingHours over its records, and Employees is its distinct        *)
(* employee names in ascending order joined by ", ".                       *)
C20_Summary ==
    tspc = "done" =>
        /\ {<<summary[i].Date, summary[i].Job>> : i \in 1..Len(summary)}
              = {<<records[i].Date, records[i].Job>> : i \in 1..Len(records)}
        /\ \A i, j \in 1..Len(summary) :
               (summary[i].Date = summary[j].Date /\ summary[i].Job = summary[j].Job) => i = j
        /\ \A i \in 1..Len(summary) :
               LET I == C20_Group(summary[i])
                   names == {records[x].Employee : x \in I}
               IN /\ summary[i].EmployeeCount = Cardinality(names)
                  /\ summary[i].TotalHours = C20_Total(I, FALSE)
                  /\ summary[i].TotalDrivingHours = C20_Total(I, TRUE)
                  /\ C20_IsSortedJoin(summary[i].Employees, names)

\* a group of three records of two employees
C20_Witness ==
    /\ tspc = "done"
    /\ \E i \in 1..Len(summary) :
           /\ Cardinality(C20_Group(summary[i])) = 3
           /\ summary[i].EmployeeCount = 2
           /\ summary[i].Employees = Chars("A Lee, J Smith")

(* C13, the summary write of process_timesheet: a run that returns returns *)
(* a path it has written and that was not locked, and a locked summary     *)
(* path fails the run only when both fallback paths are locked too.        *)
L13_SummaryRetried ==
    /\ tspc = "done" =>
           ts_out \in ts_files /\ ts_out \notin ts_locked /\ ts_files \cap ts_locked = {}
    /\ (tspc = "error" /\ ts_err = "PermissionError") =>
           out_csv \in ts_locked \/ {out_xlsx, alt_xlsx, out_csv_summary} \subseteq ts_locked

\* the summary path was locked and the summary went to the first fallback
L13_Witness ==
    /\ tspc = "done"
    /\ out_xlsx \in ts_locked
    /\ ts_out = alt_xlsx

-----------------------------------------------------------------------------
(* Claims about combine_daily_reports.  The keys of the input rows are     *)
(* recomputed here from the tables the run was given.                      *)

Reconciled == cpc \in {"merged", "sorted", "done", "locked"}

Sorted == cpc \in {"sorted", "done", "locked"}

LeftDate(i) == _coerce_date(ts.rows[i]["Date"])

LeftKey(i) == TxtSeq(_norm_job(ts.rows[i]["Job"]))

\* the canonical keys of the right rows on date d (d may be the missing date)
RightKeysOn(d) ==
    {TxtSeq(_norm_job(js.rows[j]["Job"])) :
        j \in {x \in 1..Len(js.rows) : _coerce_date(js.rows[x]["Date"]) = d}}

\* the right keys on d whose similarity to k is at least 0.82
CloseKeys(d, k) == {c \in RightKeysOn(d) : IsClose(c.s, k.s)}

Remapped(d, k, c) == <<d, k>> \in DOMAIN mapping /\ mapping[<<d, k>>] = c

\* the required columns a table lacks
C6_Lacking(df) == {c \in {"Date", "Job"} : \A i \in 1..Len(df.cols) : df.cols[i] # c}

(* C6: a table without a Date or a Job column makes combine_daily_reports  *)
(* fail with an error that names the table and exactly the columns it      *)
(* lacks (the timesheet summary is checked first); nothing has been merged *)
(* and no file has been written.  No other run fails with this error.      *)
C6_MissingColumnsFail ==
    /\ (cpc \notin {"idle", "start"} /\ (C6_Lacking(ts) # {} \/ C6_Lacking(js) # {})) =>
          /\ cpc = "error"
          /\ comb_err = IF C6_Lacking(ts) # {}
                        THEN [who |-> "Timesheet summary", missing |-> C6_Lacking(ts)]
                        ELSE [who |-> "Job sheet table", missing |-> C6_Lacking(js)]
          /\ merged = NoTable
          /\ final_df = NoTable
          /\ out_files = {}
    /\ cpc = "error" => (C6_Lacking(ts) # {} \/ C6_Lacking(js) # {})

\* the job sheet table lacks both columns and the run has failed
C6_Witness ==
    /\ cpc = "error"
    /\ C6_Lacking(ts) = {}
    /\ comb_err = [who |-> "Job sheet table", missing |-> {"Date", "Job"}]

\* the mapping: who is remapped, and to what
C1_RemapRule ==
    (Reconciled /\ fuzzy) =>
        /\ \A i \in 1..Len(ts.rows) :
              LET d == LeftDate(i)
                  k == LeftKey(i)
              IN IF d.k = "date"
                 THEN \A c \in RightKeysOn(d) \cup {mapping[p] : p \in DOMAIN mapping} :
                         Remapped(d, k, c) <=>
                             (k \notin RightKeysOn(d) /\ CloseKeys(d, k) = {c})
                 ELSE <<d, k>> \notin DOMAIN mapping
        /\ DOMAIN mapping \subseteq {<<LeftDate(i), LeftKey(i)>> : i \in 1..Len(ts.rows)}

\* left row i has no exact match and zero or several similar right keys
C1_Unmatched(i) ==
    /\ LeftDate(i).k = "date"
    /\ LeftKey(i) \notin RightKeysOn(LeftDate(i))
    /\ Cardinality(CloseKeys(LeftDate(i), LeftKey(i))) # 1

\* such a row is not remapped and its job-sheet fields are empty
C1_LeftRowAlone ==
    (Reconciled /\ fuzzy) =>
        \A i \in 1..Len(ts.rows) :
            C1_Unmatched(i) =>
                /\ <<LeftDate(i), LeftKey(i)>> \notin DOMAIN mapping
                /\ \E m \in Range(merged.rows) :
                      /\ KeyOf(m) = <<LeftDate(i), LeftKey(i)>>
                      /\ m["Job_TS"] = ts.rows[i]["Job"]
                      /\ m["TotalHours"] = ts.rows[i]["TotalHours"]
                /\ \A m \in Range(merged.rows) :
                      KeyOf(m) = <<LeftDate(i), LeftKey(i)>> =>
                          IsNa(m["Job_JS"]) /\ IsNa(m["Truck(s)"])
                /\ Sorted =>
                      \E f \in Range(final_df.rows) :
                          /\ f["Date"] = LeftDate(i)
                          /\ f["Job"] = ts.rows[i]["Job"]
                          /\ f["Working Hours"] = ts.rows[i]["TotalHours"]
                          /\ IsNa(f["Truck(s)"])

(* C1: with fuzzy reconciliation on, the mapping holds (d, k) -> c for a   *)
(* left row of date d and key k exactly when no right row on d has the key *)
(* k and c is the one right key on d with similarity at least 0.82; a left *)
(* row without a date is never remapped; the mapping has no other entry.   *)
(* A left row that has no exact match and zero or several similar keys is  *)
(* in the merged table and in the output with empty job-sheet fields.      *)
C1_FuzzyRemap == C1_RemapRule /\ C1_LeftRowAlone

\* one left row has two similar right keys and stays alone, another has
\* exactly one and is remapped
C1_Witness ==
    /\ cpc = "done"
    /\ fuzzy
    /\ \E i \in 1..Len(ts.rows) :
          C1_Unmatched(i) /\ Cardinality(CloseKeys(LeftDate(i), LeftKey(i))) = 2
    /\ \E i \in 1..Len(ts.rows) :
          \E c \in RightKeysOn(LeftDate(i)) : Remapped(LeftDate(i), LeftKey(i), c)

\* every left row has a right row of its date and canonical key
C2_AllExact ==
    \A i \in 1..Len(ts.rows) : LeftKey(i) \in RightKeysOn(LeftDate(i))

\* the output table of the two input tables with the fuzzy option fz
C2_Output(fz) ==
    LET l == _prepare_timesheet_df(ts)
        r == _prepare_job_sheet_df(js)
        lp == IF fz THEN ApplyMapping(l, _fuzzy_reconcile(l, r)) ELSE l
    IN SortValues(SelectColumns(WithJob(Merge(lp, r))))

(* C2: when every left row has a right row of the same date and the same   *)
(* canonical key, _fuzzy_reconcile returns the empty mapping, and the      *)
(* output table is the one the run gives with the fuzzy option reversed.   *)
C2_ExactIdempotent ==
    (Reconciled /\ C2_AllExact) =>
        /\ DOMAIN mapping = {}
        /\ DOMAIN _fuzzy_reconcile(_prepare_timesheet_df(ts), _prepare_job_sheet_df(js)) = {}
        /\ Sorted => final_df = C2_Output(~fuzzy)

\* every left row has its exact match, and one of them has another similar
\* right key on its date as well
C2_Witness ==
    /\ cpc = "done"
    /\ fuzzy
    /\ Len(ts.rows) > 0
    /\ C2_AllExact
    /\ \E i \in 1..Len(ts.rows) : Cardinality(CloseKeys(LeftDate(i), LeftKey(i))) = 2

(* C3: no two rows of the merged table have the same date and canonical    *)
(* key, and the output has one row per (date, canonical key) of the two    *)
(* prepared tables.                                                        *)
C3_OneRowPerGroup ==
    Reconciled =>
        /\ \A i, j \in 1..Len(merged.rows) :
              i # j => KeyOf(merged.rows[i]) # KeyOf(merged.rows[j])
        /\ Len(merged.rows) = Cardinality(KeysOf(ts_prep) \cup KeysOf(js_prep))
        /\ Sorted => Len(final_df.rows) = Len(merged.rows)

\* the display text of a job, empty for a missing job, and its order
C5_Text(v) == IF v.k = "str" THEN StrLower(v.s) ELSE <<>>

C5_Before(r1, r2) ==
    \/ StrLess(C5_Text(r1["Job"]), C5_Text(r2["Job"]))
    \/ C5_Text(r1["Job"]) = C5_Text(r2["Job"]) /\ DateLess(r1["Date"], r2["Date"])

(* C5: the output rows are in ascending order of the lower-cased display   *)
(* job text, a missing job having the empty text; within equal text in     *)
(* ascending order of date, a missing date last; and rows equal in both    *)
(* keep the order they had before the sort.                                *)
C5_SortedAsClaimed ==
    Sorted =>
        \A p, q \in 1..Len(final_df.rows) :
            p < q => /\ ~C5_Before(final_df.rows[q], final_df.rows[p])
                     /\ ~C5_Before(final_df.rows[p], final_df.rows[q]) =>
                            sort_index[p] < sort_index[q]

\* the text astype(str) makes of a job, "nan" for a missing job, and its order
L5_Text(v) == IF v.k = "str" THEN StrLower(v.s) ELSE Chars("nan")

L5_Before(r1, r2) ==
    \/ StrLess(L5_Text(r1["Job"]), L5_Text(r2["Job"]))
    \/ L5_Text(r1["Job"]) = L5_Text(r2["Job"]) /\ DateLess(r1["Date"], r2["Date"])

(* C5, what does hold: the same with a missing job ordered as the text     *)
(* "nan", which is what astype(str) makes of it.                           *)
L5_SortedByStrKey ==
    Sorted =>
        /\ Len(sort_index) = Len(final_df.rows)
        /\ {sort_index[p] : p \in 1..Len(sort_index)} = 0..(Len(final_df.rows) - 1)
        /\ \A p, q \in 1..Len(final_df.rows) :
              p < q => /\ ~L5_Before(final_df.rows[q], final_df.rows[p])
                       /\ ~L5_Before(final_df.rows[p], final_df.rows[q]) =>
                              sort_index[p] < sort_index[q]

\* two rows equal in both keys, in their order before the sort, and a row
\* with a missing job somewhere
L5_Witness ==
    /\ cpc = "done"
    /\ \E p, q \in 1..Len(final_df.rows) :
          /\ p < q
          /\ ~L5_Before(final_df.rows[p], final_df.rows[q])
          /\ sort_index[p] = 0 /\ sort_index[q] = 1
    /\ \E p \in 1..Len(final_df.rows) : IsNa(final_df.rows[p]["Job"])

-----------------------------------------------------------------------------
(* Claims about the output of combine_daily_reports.                       *)

(* C13: when the path of the combined workbook is locked by another        *)
(* process, combine_daily_reports still returns, and the path it returns   *)
(* is a path it has written and that was not locked.                       *)
C13_LockedWriteRetried ==
    (cpc \in {"done", "locked"} /\ xlsx_path \in comb_locked) =>
        /\ cpc = "done"
        /\ comb_out \in out_files
        /\ comb_out \notin comb_locked

\* a job text that is a string with a character other than white space
C15_NonBlank(v) == v.k = "str" /\ StrStrip(v.s) # <<>>

\* the canonical key a left row is merged under
C15_LeftKey(i) ==
    IF <<LeftDate(i), LeftKey(i)>> \in DOMAIN mapping
    THEN mapping[<<LeftDate(i), LeftKey(i)>>]
    ELSE LeftKey(i)

\* the rows of the two input tables that are of the group g = (date, key)
C15_LeftIn(g) == {i \in 1..Len(ts.rows) : <<LeftDate(i), C15_LeftKey(i)>> = g}

C15_RightIn(g) ==
    {j \in 1..Len(js.rows) :
        <<_coerce_date(js.rows[j]["Date"]), TxtSeq(_norm_job(js.rows[j]["Job"]))>> = g}

\* the values of column c of a table, with their numbers of occurrences
C15_Count(df, c, v) == Cardinality({x \in 1..Len(df.rows) : df.rows[x][c] = v})

C18_PerSheetMode == cpc = "done" /\ sheets # <<>> /\ sheets[1].name = Chars("All")

\* the per-job sheets a row is on
C18_SheetsOf(r) == {i \in 2..Len(sheets) : r \in Range(sheets[i].rows)}

RECURSIVE C18_RowTotal(_)
C18_RowTotal(I) ==
    IF I = {} THEN 0
    ELSE LET i == CHOOSE x \in I : TRUE IN Len(sheets[i].rows) + C18_RowTotal(I \ {i})

\* the 'All' sheet has every output row, and every output row is on exactly
\* one per-job sheet
C18_RowsPlaced ==
    /\ sheets[1].rows = final_df.rows
    /\ \A r \in Range(final_df.rows) : Cardinality(C18_SheetsOf(r)) = 1
    /\ C18_RowTotal(2..Len(sheets)) = Len(final_df.rows)

(* C18: the per-sheet workbook has the 'All' sheet with every output row   *)
(* and one more sheet per job display value, two values that differ in     *)
(* letter case only counting as one; every output row is on exactly one    *)
(* per-job sheet.                                                          *)
C18_OneSheetPerJob ==
    C18_PerSheetMode =>
        /\ C18_RowsPlaced
        /\ Len(sheets) - 1
              = Cardinality({StrLower(PyStr(FillJob(r["Job"]))) : r \in Range(final_df.rows)})

(* C18, what does hold: the same with one sheet per job display value,     *)
(* two values that differ in letter case counting as two.                  *)
L18_OneSheetPerValue ==
    C18_PerSheetMode =>
        /\ C18_RowsPlaced
        /\ Len(sheets) - 1 = Cardinality({FillJob(r["Job"]) : r \in Range(final_df.rows)})

\* three job values, one of them the missing job
L18_Witness ==
    /\ C18_PerSheetMode
    /\ Len(sheets) = 4
    /\ \E i \in 2..4 : sheets[i].name = Chars("UnknownJob")

-----------------------------------------------------------------------------
(* Claims about the worksheet names.                                       *)

C17_Forbidden == {"[", "]", ":", "*", "?", "/", "\\"}

\* a suffix _<digits> whose number is at most n
C17_IsSuffix(t, n) ==
    /\ Len(t) >= 2
    /\ t[1] = "_"
    /\ \A i \in 2..Len(t) : IsDigit(t[i])
    /\ IntVal(SubSeq(t, 2, Len(t))) <= n

\* the name a job value gets when no other sheet has it
C17_Plain(v) ==
    LET clean == SelectSeq(PyStr(v), LAMBDA ch : ch \notin C17_Forbidden)
    IN IF clean = <<>> THEN Chars("Sheet") ELSE SubSeq(clean, 1, Min(Len(clean), 31))

(* C17: every worksheet name is non-empty, at most 31 characters long,     *)
(* without any of [ ] : * ? / \, different from 'All' and from every other  *)
(* name; there is one name per job value; a name is the job value's plain  *)
(* name or ends in _<n>, where n is at most the number of sheets: the      *)
(* loop that looks for an unused name ends within that many rounds.        *)
C17_SheetNames ==
    shpc = "out" =>
        /\ Len(sheet_names) = Cardinality({FillJob(v) : v \in Range(job_vals)})
        /\ \A i \in 1..Len(sheet_names) :
               /\ sheet_names[i] # <<>>
               /\ Len(sheet_names[i]) <= 31
               /\ \A c \in 1..Len(sheet_names[i]) : sheet_names[i][c] \notin C17_Forbidden
               /\ sheet_names[i] # Chars("All")
               /\ \A j \in 1..Len(sheet_names) : sheet_names[i] = sheet_names[j] => i = j
               /\ \/ \E v \in Range(job_vals) : sheet_names[i] = C17_Plain(FillJob(v))
                  \/ \E p \in 1..Len(sheet_names[i]) :
                         C17_IsSuffix(SubSeq(sheet_names[i], p, Len(sheet_names[i])),
                                    Len(sheet_names) + 1)

\* two long job values that collide after the trim, the second of which gets
\* its third candidate name, 31 characters long
C17_Witness ==
    /\ shpc = "out"
    /\ \E i \in 1..Len(sheet_names) :
          /\ Len(sheet_names[i]) = 31
          /\ SubSeq(sheet_names[i], 30, 31) = Chars("_3")
    /\ \E v \in Range(job_vals) : Len(PyStr(v)) > 31

-----------------------------------------------------------------------------
(* Claims about the pattern strategy of the date resolver.                 *)

\* the year of a resolved date
C19_Year(d) == d \div 10000

\* the default year of a source file: the year of a month-day-year pattern
\* in the file name, the current year when the name has none
C19_DefaultYear(path, now) ==
    LET m == pattern_search(path) IN
    IF m.yr = <<>> THEN now
    ELSE IF Len(m.yr) = 2 THEN 2000 + IntVal(m.yr)
    ELSE IntVal(m.yr)

\* the year group of the label
C19_Yr == pattern_search(date_text).yr

(* C19: a date the pattern strategy resolves has the default year of the   *)
(* source file when the label has no year, the year 2000 + yy when it has  *)
(* a 2-digit year yy, and the label's year when it has a 4-digit year.     *)
C19_YearRule ==
    (dpc = "out" /\ date_out # NoDate) =>
        /\ C19_Yr = <<>> => C19_Year(date_out) = C19_DefaultYear(timesheet_path, now_year)
        /\ Len(C19_Yr) = 2 => C19_Year(date_out) = 2000 + IntVal(C19_Yr)
        /\ Len(C19_Yr) = 4 => C19_Year(date_out) = IntVal(C19_Yr)

(* C19, what does hold: the same with the current calendar year for a      *)
(* label without a year, whatever the file name is.                        *)
L19_YearRule ==
    (dpc = "out" /\ date_out # NoDate) =>
        /\ C19_Yr = <<>> => C19_Year(date_out) = now_year
        /\ Len(C19_Yr) = 2 => C19_Year(date_out) = 2000 + IntVal(C19_Yr)
        /\ Len(C19_Yr) = 4 => C19_Year(date_out) = IntVal(C19_Yr)

\* "9/8/25" resolved to the 8th of September 2025
L19_Witness ==
    /\ dpc = "out"
    /\ date_text = Chars("9/8/25")
    /\ date_out = 20250908

-----------------------------------------------------------------------------
(* Claims about combine_workbook.                                          *)

(* C14: the combine stage of an invocation reads a timesheet summary and a *)
(* normalized job sheet that this invocation wrote from its own workbook.  *)
C14_OwnFilesOnly ==
    ppc = "done" =>
        /\ report.ts = Written(run, wb)
        /\ report.js = Written(run, wb)

(* C14, what does hold: the combine stage reads its own invocation's files *)
(* when the job sheet is not empty and the summary path is not locked.     *)
L14_OwnFilesWhenWritten ==
    (ppc = "done" /\ ~wb.js_empty /\ out_xlsx \notin p_locked) =>
        /\ report.ts = Written(run, wb)
        /\ report.js = Written(run, wb)

\* a second invocation that combined its own files
L14_Witness ==
    /\ ppc = "done"
    /\ run = 2
    /\ ~wb.js_empty
    /\ out_xlsx \notin p_locked
    /\ report.ts.run = 2

-----------------------------------------------------------------------------
(* Claims about applying _norm_job to its own result.                      *)

\* the key read back as a job name
C29_Again == _norm_job(TxtSeq(key))

(* C29: the job-name normalizer is idempotent: normalizing a canonical key *)
(* again leaves it unchanged.                                              *)
C29_Idempotent == npc = "out" => C29_Again = key

(* C29, what does hold: a key that neither begins nor ends with a comma is *)
(* unchanged by a second normalization.                                    *)
L29_IdempotentNoComma ==
    (npc = "out" /\ (key = <<>> \/ (key[1] # "," /\ key[Len(key)] # ","))) =>
        C29_Again = key

\* "A b" normalized to "a b", which a second normalization keeps
L29_Witness ==
    /\ npc = "out"
    /\ raw = Txt("A b")
    /\ key = Chars("a b")
    /\ C29_Again = key

-----------------------------------------------------------------------------
(* Claims about the fixed-width split of _normalize_trucks.                *)

C26_Delimited == \E i \in 1..Len(truck) : truck[i] \in {",", " ", "/", "-"}

C26_Numeric == truck # <<>> /\ \A i \in 1..Len(truck) : IsDigit(truck[i])

\* the groups of w characters of the field
C26_Groups(w) ==
    [i \in 1..(Len(truck) \div w) |-> SubSeq(truck, (i - 1) * w + 1, i * w)]

\* w divides the length into at least two groups, none of zeros only
C26_Fits(w) ==
    /\ Len(truck) % w = 0
    /\ Len(truck) \div w >= 2
    /\ \A i \in 1..(Len(truck) \div w) : \E j \in 1..w : C26_Groups(w)[i][j] # "0"

\* the first of the widths 3, 4, 2 that fits, 0 when none does
C26_Width ==
    IF C26_Fits(3) THEN 3 ELSE IF C26_Fits(4) THEN 4 ELSE IF C26_Fits(2) THEN 2 ELSE 0

\* the result with its commas and spaces taken out
C26_Unjoined == SelectSeq(trOut, LAMBDA c : c \notin {",", " "})

-----------------------------------------------------------------------------
(* Claims about the columns of a day block.                                *)

\* the columns selected for day block b
C22_Selected(b) ==
    {C4_Cols(b).job_col, C4_Cols(b).hours_col, C4_Cols(b).driving_col} \ {NoIdx}

\* the header labels, stripped and lower-cased
C22_Label(c) == StrLower(StrStrip(HeaderLabels(grid, header_row_idx)[c + 1]))

(* C22: the job, hours and driving columns selected for a day block lie at *)
(* or after the block's start column, fewer than 5 columns from it, and    *)
(* strictly before the start column of the next detected day block.        *)
C22_NoBleedOver ==
    TsLocated =>
        \A b \in 1..Len(day_start_cols) : \A c \in C22_Selected(b) :
            /\ c >= day_start_cols[b]
            /\ c < day_start_cols[b] + 5
            /\ b < Len(day_start_cols) => c < day_start_cols[b + 1]

(* C22, what does hold: the selected columns lie at or after the block's   *)
(* start, fewer than 5 columns from it, and no column between the start    *)
(* and a selected column has a label that starts with 'trk'.               *)
L22_NoBleedOverStartsWith ==
    TsLocated =>
        \A b \in 1..Len(day_start_cols) : \A c \in C22_Selected(b) :
            /\ c >= day_start_cols[b]
            /\ c < day_start_cols[b] + 5
            /\ \A x \in (day_start_cols[b] + 1)..c :
                   ~StartsWith(C22_Label(x), Chars("trk"))

\* a first block cut short by the 'trk' label of the second: its driving
\* column, 2 columns from the start, is the last before the next block
L22_Witness ==
    /\ TsLocated
    /\ Len(day_start_cols) = 2
    /\ day_start_cols[2] - day_start_cols[1] = 3
    /\ C4_Cols(1).driving_col = day_start_cols[1] + 2
    /\ C4_Cols(1).hours_col = NoIdx

-----------------------------------------------------------------------------
(* Claims about day blocks without a job or an hours column.               *)

\* day block b has a column whose label starts with prefix, within 5
\* columns of its start and not beyond a label that starts with 'trk'
C23_Has(b, prefix) ==
    \E c \in day_start_cols[b]..(day_start_cols[b] + 4) :
        /\ c < NCols(grid)
        /\ StartsWith(C22_Label(c), Chars(prefix))
        /\ \A x \in (day_start_cols[b] + 1)..c : ~StartsWith(C22_Label(x), Chars("trk"))

C23_Skipped(b) == ~C23_Has(b, "job") \/ ~C23_Has(b, "h")

\* the records of a walk over the day blocks that start at the columns of
\* starts, each block on its own
RECURSIVE C23_Walk(_)
C23_Walk(starts) ==
    IF starts = <<>> THEN <<>>
    ELSE BlockRecords(grid, first_emp_row, Head(starts),
                      BlockCols(HeaderLabels(grid, header_row_idx), Head(starts)),
                      IF header_row_idx = 0 THEN NoDate
                      ELSE BlockDate(grid, header_row_idx - 1, Head(starts)),
                      include_driving)
         \o C23_Walk(Tail(starts))

\* the blocks walked so far that are not skipped
C23_Kept ==
    LET n == IF tspc = "blocks" THEN blk ELSE Len(day_start_cols)
        idx == SelectSeq([b \in 1..n |-> b], LAMBDA b : ~C23_Skipped(b))
    IN [i \in 1..Len(idx) |-> day_start_cols[idx[i]]]

(* C23: a day block without a job column or without an hours column       *)
(* contributes no record and does not abort the run: no record comes from  *)
(* it, a run that fails inside the walk fails in a block that has both     *)
(* columns, and the records are those of a walk over the other blocks      *)
(* alone.                                                                  *)
C23_SkippedBlock ==
    TsLocated =>
        /\ \A i \in 1..Len(records) : \A b \in 1..Len(day_start_cols) :
               records[i].col = day_start_cols[b] => ~C23_Skipped(b)
        /\ ts_err = "internal" => ~C23_Skipped(blk + 1)
        /\ ts_err # "internal" => records = C23_Walk(C23_Kept)

\* a walked sheet whose first block has no hours column and whose second
\* block gave a record
C23_Witness ==
    /\ tspc = "done"
    /\ Len(day_start_cols) = 2
    /\ C23_Skipped(1)
    /\ ~C23_Skipped(2)
    /\ records # <<>>

-----------------------------------------------------------------------------
(* Claims about the join after fuzzy reconciliation.                       *)

\* the right rows of date d and canonical key c
C21_RightRows(d, c) ==
    {j \in 1..Len(js.rows) :
        _coerce_date(js.rows[j]["Date"]) = d /\ TxtSeq(_norm_job(js.rows[j]["Job"])) = c}

\* the left rows whose key is c on date d once the mapping is applied
C21_LeftRows(d, c) ==
    {i \in 1..Len(ts.rows) :
        /\ LeftDate(i) = d
        /\ \/ LeftKey(i) = c /\ <<d, LeftKey(i)>> \notin DOMAIN mapping
           \/ Remapped(d, LeftKey(i), c)}

C21_MergedOn(d, c) == {n \in 1..Len(merged.rows) : KeyOf(merged.rows[n]) = <<d, c>>}

(* C21: with fuzzy matching on, a left row of date d and key k with an     *)
(* accepted remap (d, k) -> c is joined with every right row of (d, c):    *)
(* the merged table has a row with the left row's labor values and the     *)
(* right row's job-sheet fields, and so has the output; the merged table   *)
(* has one row per pair of a left and a right row of (d, c), no row of the *)
(* key (d, k), and no row of (d, c) without labor values.                  *)
C21_RemapJoins ==
    (Reconciled /\ fuzzy) =>
        \A i \in 1..Len(ts.rows) : \A p \in DOMAIN mapping :
            p = <<LeftDate(i), LeftKey(i)>> =>
                LET d == p[1]
                    c == mapping[p]
                IN /\ C21_RightRows(d, c) # {}
                   /\ \A j \in C21_RightRows(d, c) :
                         /\ \E n \in C21_MergedOn(d, c) :
                               /\ merged.rows[n]["TotalHours"] = ts.rows[i]["TotalHours"]
                               /\ merged.rows[n]["Job_TS"] = ts.rows[i]["Job"]
                               /\ merged.rows[n]["Job_JS"] = js.rows[j]["Job"]
                               /\ merged.rows[n]["Truck(s)"] = js.rows[j]["Truck(s)"]
                         /\ Sorted =>
                               \E f \in Range(final_df.rows) :
                                   /\ f["Date"] = d
                                   /\ f["Working Hours"] = ts.rows[i]["TotalHours"]
                                   /\ f["Truck(s)"] = js.rows[j]["Truck(s)"]
                   /\ Cardinality(C21_MergedOn(d, c))
                        = Cardinality(C21_LeftRows(d, c)) * Cardinality(C21_RightRows(d, c))
                   /\ C21_MergedOn(d, p[2]) = {}
                   /\ \A n \in C21_MergedOn(d, c) : ~IsNa(merged.rows[n]["TotalHours"])

\* a written report of a run that remapped a left row
C21_Witness ==
    /\ cpc = "done"
    /\ fuzzy
    /\ \E i \in 1..Len(ts.rows) :
          /\ <<LeftDate(i), LeftKey(i)>> \in DOMAIN mapping
          /\ \E f \in Range(final_df.rows) :
                f["Working Hours"] = ts.rows[i]["TotalHours"] /\ ~IsNa(f["Truck(s)"])

-----------------------------------------------------------------------------
(* Claims about the labor totals of the report.                            *)

\* the number in a cell, 0 for an empty cell
C28_Num(v) == IF IsNa(v) THEN 0 ELSE IntVal(v.s)

RECURSIVE C28_Sum(_, _)
C28_Sum(rows, col) ==
    IF rows = <<>> THEN 0 ELSE C28_Num(Head(rows)[col]) + C28_Sum(Tail(rows), col)

(* C28: the sum of Working Hours over the rows of the report equals the    *)
(* sum of TotalHours over the rows of the timesheet summary, and every     *)
(* summary row is in exactly one row of the report, with fuzzy matching on *)
(* and off.                                                                *)
C28_LaborConserved ==
    Sorted =>
        /\ C28_Sum(final_df.rows, "Working Hours") = C28_Sum(ts.rows, "TotalHours")
        /\ Cardinality({n \in 1..Len(final_df.rows) : ~IsNa(final_df.rows[n]["Working Hours"])})
             = Len(ts.rows)

\* no two rows of the job sheet table have the same date and canonical key
C28_RightUnique ==
    \A a, b \in 1..Len(js_prep.rows) :
        a # b => KeyOf(js_prep.rows[a]) # KeyOf(js_prep.rows[b])

(* C28, what does hold: the same when no two rows of the job sheet table   *)
(* have the same date and canonical key.                                   *)
L28_LaborConservedUniqueRight == (Sorted /\ C28_RightUnique) => C28_LaborConserved

\* a report of two summary rows, one of them joined with a job sheet row
L28_Witness ==
    /\ cpc = "done"
    /\ C28_RightUnique
    /\ Len(ts.rows) = 2
    /\ C28_Sum(ts.rows, "TotalHours") = 12
    /\ \E f \in Range(final_df.rows) : ~IsNa(f["Working Hours"]) /\ ~IsNa(f["Truck(s)"])

-----------------------------------------------------------------------------
(* Claims about the left keys after fuzzy reconciliation.                  *)

(* C30: two left rows of the same date with different canonical keys       *)
(* before fuzzy reconciliation have different canonical keys after it.     *)
C30_NoConflation ==
    (Reconciled /\ fuzzy) =>
        \A i, j \in 1..Len(ts.rows) :
            (LeftDate(i) = LeftDate(j) /\ LeftKey(i) # LeftKey(j)) =>
                ts_prep.rows[i]["_CanonicalJob"] # ts_prep.rows[j]["_CanonicalJob"]

(* C30, what does hold: a left row whose key a right row of its date       *)
(* carries keeps its key, and a remapped key becomes a key of a right row  *)
(* of its date.                                                            *)
L30_RemapTargets ==
    (Reconciled /\ fuzzy) =>
        \A i \in 1..Len(ts.rows) :
            /\ LeftKey(i) \in RightKeysOn(LeftDate(i)) =>
                  ts_prep.rows[i]["_CanonicalJob"] = LeftKey(i)
            /\ ts_prep.rows[i]["_CanonicalJob"] # LeftKey(i) =>
                  ts_prep.rows[i]["_CanonicalJob"] \in RightKeysOn(LeftDate(i))

\* one left row keeps its exact key, another is remapped
L30_Witness ==
    /\ cpc = "done"
    /\ fuzzy
    /\ \E i, j \in 1..Len(ts.rows) :
          /\ LeftKey(i) \in RightKeysOn(LeftDate(i))
          /\ ts_prep.rows[j]["_CanonicalJob"] # LeftKey(j)


-----------------------------------------------------------------------------
(* Claims about the group scan of the job sheet.                           *)

C24_IsMarker(r) == Contains(PyStr(Cell(sheet, r, 0)), Chars("Job & Truck"))

C24_Has(r, word) == Contains(PyStr(Cell(sheet, r, 0)), Chars(word))

\* the marker rows among the rows the scan has passed
C24_Markers == {r \in 0..(scan_i - 1) : C24_IsMarker(r)}

\* the group that is current once row r has been passed
C24_GroupAt(r) ==
    IF \E m \in C24_Markers : m <= r
    THEN CHOOSE m \in C24_Markers : m <= r /\ \A n \in C24_Markers : n <= r => n <= m
    ELSE NoIdx

\* the row attached from a set of candidate rows: the last one, or the
\* row of None values
C24_LastOf(rows) ==
    IF rows = {} THEN NoneRow(sheet)
    ELSE sheet[(CHOOSE r \in rows : \A q \in rows : q <= r) + 1]

\* the passed rows of the group of marker m that contain the word
C24_Containing(m, word) ==
    {r \in 0..(scan_i - 1) : r # m /\ C24_Has(r, word) /\ C24_GroupAt(r) = m}

\* the passed rows the scan takes for the concrete rows (stone rows) of
\* the group of marker m: the first of the tests marker, 'Concrete',
\* 'Stone' that a row passes decides
C24_ConcreteRows(m) == {r \in C24_Containing(m, "Concrete") : ~C24_IsMarker(r)}

C24_StoneRows(m) ==
    {r \in C24_Containing(m, "Stone") : ~C24_IsMarker(r) /\ ~C24_Has(r, "Concrete")}

\* markers open groups, and nothing is attached outside a group
C24_Groups ==
    /\ jspc \in {"scan", "done"} =>
         /\ current_group = C24_GroupAt(scan_i - 1)
         /\ DOMAIN concrete_map = C24_Markers
         /\ DOMAIN stone_map = C24_Markers
    /\ jspc = "done" => Range(group_rows) = C24_Markers

\* the description of every record is taken from the row after its marker
C24_Description ==
    jspc = "done" =>
        \A i \in 1..Len(js_records) :
            LET rec == js_records[i] IN
            /\ rec.gr \in C24_Markers
            /\ rec.Description =
                 IF rec.gr + 1 < NRows(sheet)
                 THEN _clean_str(Cell(sheet, rec.gr + 1, day_col_of(rec.date_col)))
                 ELSE <<>>

\* C24 as stated: each 'Job & Truck' marker row opens a group that stays
\* current until the next marker; the concrete (stone) row of a group is the
\* last row containing 'Concrete' ('Stone') between its marker and the next
\* one; rows before the first marker are attached to no group; and the
\* description row of a group is the row right after its marker.
C24_GroupScan ==
    /\ C24_Groups
    /\ C24_Description
    /\ jspc \in {"scan", "done"} =>
         \A m \in C24_Markers :
             /\ concrete_map[m] = C24_LastOf(C24_Containing(m, "Concrete"))
             /\ stone_map[m] = C24_LastOf(C24_Containing(m, "Stone"))

\* C24, amended: the same, where a row counts as a concrete row when it is
\* no marker row and contains 'Concrete', and as a stone row when it is no
\* marker row, does not contain 'Concrete' and contains 'Stone'.
L24_GroupScanFirstTest ==
    /\ C24_Groups
    /\ C24_Description
    /\ jspc \in {"scan", "done"} =>
         \A m \in C24_Markers :
             /\ concrete_map[m] = C24_LastOf(C24_ConcreteRows(m))
             /\ stone_map[m] = C24_LastOf(C24_StoneRows(m))

\* a finished scan with a group whose last row containing 'Stone' also
\* contains 'Concrete' and comes after a stone row, and with records
L24_Witness ==
    /\ jspc = "done"
    /\ js_records # <<>>
    /\ \E m \in C24_Markers :
         /\ C24_StoneRows(m) # {}
         /\ C24_LastOf(C24_Containing(m, "Stone")) # stone_map[m]
         /\ concrete_map[m] = C24_LastOf(C24_Containing(m, "Stone"))


-----------------------------------------------------------------------------
(* Claims about the records of the job sheet.                              *)

\* the cell of a row in column c, nothing when the row has no such column
C25_At(row, c) == IF c \in 0..(Len(row) - 1) THEN row[c + 1] ELSE None

\* a value that is not missing, whose text is neither blank nor 'nan'
C25_NonEmpty(v) ==
    /\ v.k # "none"
    /\ \E i \in 1..Len(PyStr(v)) : ~IsSpace(PyStr(v)[i])
    /\ StrLower(StrStrip(PyStr(v))) # <<"n", "a", "n">>

C25_HeaderText(c) == StrStrip(PyStr(sheet[1][c + 1]))

\* header columns with a text that is a complete date
C25_ParseableCols ==
    {c \in 0..(NCols(sheet) - 1) :
        ~IsNa(sheet[1][c + 1]) /\ parse_date(C25_HeaderText(c)) # NoDate}

\* those of them whose text has a '/' or a '-'
C25_DateCols ==
    {c \in C25_ParseableCols : Range(C25_HeaderText(c)) \cap {"/", "-"} # {}}

\* the seven values of marker row m read from columns dayc and datec
C25_Values(m, dayc, datec) ==
    LET desc_row == IF m + 2 <= NRows(sheet) THEN sheet[m + 2] ELSE <<>> IN
    [Job |-> C25_At(sheet[m + 1], dayc),
     Trucks |-> C25_At(sheet[m + 1], datec),
     Description |-> C25_At(desc_row, dayc),
     Concrete |-> C25_At(concrete_map[m], dayc),
     ConcreteYds |-> C25_At(concrete_map[m], datec),
     Stone |-> C25_At(stone_map[m], dayc),
     StoneLds |-> C25_At(stone_map[m], datec)]

C25_RecordsOf(m, c) ==
    {i \in 1..Len(js_records) : js_records[i].gr = m /\ js_records[i].date_col = c}

\* one record of (m, datec) with the values of columns dayc and datec if
\* one of the seven is non-empty, none otherwise
C25_OneOrNone(m, dayc, datec) ==
    LET v == C25_Values(m, dayc, datec) IN
    IF \E f \in DOMAIN v : C25_NonEmpty(v[f])
    THEN /\ Cardinality(C25_RecordsOf(m, datec)) = 1
         /\ \A i \in C25_RecordsOf(m, datec) :
              /\ js_records[i].Date = isoformat(parse_date(C25_HeaderText(datec)))
              /\ js_records[i].Trucks = _normalize_trucks(_clean_str(v.Trucks))
              /\ \A f \in DOMAIN v \ {"Trucks"} : js_records[i][f] = _clean_str(v[f])
    ELSE C25_RecordsOf(m, datec) = {}

\* C25 as stated: for every group and every header column holding a
\* parseable date there is exactly one record when one of the seven fields
\* is non-empty and none otherwise; job, description, concrete and stone are
\* read from the column before the date column, trucks, concrete yds and
\* stone lds from the date column.
C25_OnePerPair ==
    jspc = "done" =>
        /\ \A m \in C24_Markers : \A c \in C25_ParseableCols : C25_OneOrNone(m, c - 1, c)
        /\ \A i \in 1..Len(js_records) :
              js_records[i].gr \in C24_Markers /\ js_records[i].date_col \in C25_ParseableCols

\* C25, amended: the same for every header column whose text contains '/'
\* or '-' and is a date, where the four fields of a date in column 0 are
\* read from column 0 itself.
L25_OnePerPairSeparator ==
    jspc = "done" =>
        /\ \A m \in C24_Markers : \A c \in C25_DateCols :
              C25_OneOrNone(m, IF c = 0 THEN 0 ELSE c - 1, c)
        /\ \A i \in 1..Len(js_records) :
              js_records[i].gr \in C24_Markers /\ js_records[i].date_col \in C25_DateCols

\* a finished sheet with a date in header column 0 that gives a record, and
\* with a group and a date column that give none
L25_Witness ==
    /\ jspc = "done"
    /\ \E m \in C24_Markers : 0 \in C25_DateCols /\ C25_RecordsOf(m, 0) # {}
    /\ \E m \in C24_Markers : \E c \in C25_DateCols : C25_RecordsOf(m, c) = {}


-----------------------------------------------------------------------------
(* app.py: upload_file for requests served at the same time over one       *)
(* uploads/ and one outputs/ folder, one step per file operation.  A file  *)
(* is [data, by, unread]: the workbooks its content was made from, the     *)
(* request that wrote it, and whether that request has yet to read it.     *)

MaxRequests == 2        \* requests in flight, at most
Requests == 1..MaxRequests

ALLOWED_EXTENSIONS == {Chars("xlsx"), Chars("xls"), Chars("xlsm"), Chars("xlsb")}

LastDot(s) == CHOOSE i \in 1..Len(s) : s[i] = "." /\ \A j \in (i + 1)..Len(s) : s[j] # "."

\* "." in filename and filename.rsplit(".", 1)[1].lower() in ALLOWED_EXTENSIONS
allowed_file(filename) ==
    /\ "." \in Range(filename)
    /\ StrLower(SubSeq(filename, LastDot(filename) + 1, Len(filename))) \in ALLOWED_EXTENSIONS

\* werkzeug's secure_filename on ASCII names without a path separator:
\* whitespace runs become "_", characters outside [A-Za-z0-9_.-] go, and
\* dots and underscores are stripped from both ends
secure_filename(filename) ==
    LET joined == StrJoin(<<"_">>, StrSplit(filename))
        kept == SelectSeq(joined, LAMBDA c : IsAlpha(c) \/ IsDigit(c) \/ c \in {"_", ".", "-"})
    IN RStripSet(LStripSet(kept, {".", "_"}), {".", "_"})

\* os.path.splitext(fname)[0]
splitext_root(fname) ==
    IF \E i \in 2..Len(fname) : fname[i] = "." /\ \E j \in 1..(i - 1) : fname[j] # "."
    THEN SubSeq(fname, 1, LastDot(fname) - 1)
    ELSE fname

\* os.path.join(folder, name)
UPLOAD_FOLDER == "uploads"
OUTPUT_FOLDER == "outputs"
saved_path(filename) == <<UPLOAD_FOLDER, secure_filename(filename)>>
timesheet_summary_path == <<OUTPUT_FOLDER, Chars(out_xlsx)>>
timesheet_long_path == <<OUTPUT_FOLDER, Chars(out_csv)>>
job_sheet_normalized_path == <<OUTPUT_FOLDER, Chars(job_sheet_norm_path)>>
combined_report_path(filename) ==
    <<OUTPUT_FOLDER,
      Chars("COMBINED ") \o splitext_root(secure_filename(filename)) \o Chars(".xlsx")>>

\* writing and removing a file
PutFile(d, p, data, r, unread) ==
    [q \in DOMAIN d \cup {p} |->
        IF q = p THEN [data |-> data, by |-> r, unread |-> unread] ELSE d[q]]

RemoveFile(d, p) == [q \in DOMAIN d \ {p} |-> d[q]]

\* the file p once request r has read it
ReadFile(d, p, r) ==
    IF p \in DOMAIN d /\ d[p].by = r THEN [d EXCEPT ![p].unread = FALSE] ELSE d

\* a request between its first step and its response
Active(q) == up[q].pc \notin {"idle", "rejected", "failed", "done"}

\* request r goes on as rec; alone records that no two requests were ever
\* in flight together with it
Advance(r, rec) ==
    [q \in Requests |->
        IF q = r
        THEN [rec EXCEPT !.alone = up[r].alone /\ \A o \in Requests \ {r} : ~Active(o)]
        ELSE IF Active(q) THEN [up[q] EXCEPT !.alone = FALSE]
        ELSE up[q]]

UploadNames == {Chars("w 1.xlsx"), Chars("w_1.xlsx"), Chars("w2.xlsx"), Chars("w3.csv")}

InitUploads ==
    /\ \E keep \in BOOLEAN :
         up \in [Requests -> [pc : {"idle"}, filename : UploadNames, keep : {keep},
                              wb : {<<>>}, jwb : {<<>>}, ts : {<<>>}, js : {<<>>},
                              built : {<<>>}, sent : {<<>>}, alone : {TRUE}]]
    /\ folder = <<>>
    /\ up_lost = {}
    /\ NormIdle
    /\ TruckIdle
    /\ TsIdle
    /\ CombIdle
    /\ OthersIdle
    /\ JobIdle

UpRest == <<up_lost, normVars, truckVars, tsVars, combVars, sheetVars, dateVars,
            pipeVars, jobVars>>

\* lines 44 to 55: the file-type test and file.save(saved_path)
UpSave(r) ==
    /\ up[r].pc = "idle"
    /\ IF allowed_file(up[r].filename)
       THEN /\ folder' = PutFile(folder, saved_path(up[r].filename), <<r>>, r, FALSE)
            /\ up' = Advance(r, [up[r] EXCEPT !.pc = "validate"])
       ELSE /\ folder' = folder
            /\ up' = Advance(r, [up[r] EXCEPT !.pc = "rejected"])
    /\ UNCHANGED UpRest

\* lines 58 to 66: pd.ExcelFile(saved_path); every workbook of the model has
\* the two required sheets
UpValidate(r) ==
    /\ up[r].pc = "validate"
    /\ up' = Advance(r, [up[r] EXCEPT !.pc = "ts_read"])
    /\ UNCHANGED <<folder, UpRest>>

\* line 70, process_timesheet: the workbook is read
UpTimesheetRead(r) ==
    /\ up[r].pc = "ts_read"
    /\ up' = Advance(r, [up[r] EXCEPT !.pc = "ts_csv",
                                      !.wb = folder[saved_path(up[r].filename)].data])
    /\ UNCHANGED <<folder, UpRest>>

\* parse_timesheet.py line 283: long_df.to_csv(out_csv)
UpTimesheetCsv(r) ==
    /\ up[r].pc = "ts_csv"
    /\ folder' = PutFile(folder, timesheet_long_path, up[r].wb, r, FALSE)
    /\ up' = Advance(r, [up[r] EXCEPT !.pc = "ts_xlsx"])
    /\ UNCHANGED UpRest

\* parse_timesheet.py line 286: summary.to_excel(out_xlsx)
UpTimesheetXlsx(r) ==
    /\ up[r].pc = "ts_xlsx"
    /\ folder' = PutFile(folder, timesheet_summary_path, up[r].wb, r, TRUE)
    /\ up' = Advance(r, [up[r] EXCEPT !.pc = "js_read"])
    /\ UNCHANGED UpRest

\* line 72, process_job_sheet: the workbook is read
UpJobSheetRead(r) ==
    /\ up[r].pc = "js_read"
    /\ up' = Advance(r, [up[r] EXCEPT !.pc = "js_write",
                                      !.jwb = folder[saved_path(up[r].filename)].data])
    /\ UNCHANGED <<folder, UpRest>>

\* parse_job_sheet.py line 146: out.to_excel(output_path)
UpJobSheetWrite(r) ==
    /\ up[r].pc = "js_write"
    /\ folder' = PutFile(folder, job_sheet_normalized_path, up[r].jwb, r, TRUE)
    /\ up' = Advance(r, [up[r] EXCEPT !.pc = "comb_check"])
    /\ UNCHANGED UpRest

\* combine_parsers.py lines 199 to 202: FileNotFoundError when one of the
\* two tables is not there (the handler answers 500, lines 108 to 123)
UpCombineCheck(r) ==
    /\ up[r].pc = "comb_check"
    /\ up' = Advance(r, [up[r] EXCEPT !.pc =
             IF {timesheet_summary_path, job_sheet_normalized_path} \subseteq DOMAIN folder
             THEN "comb_ts" ELSE "failed"])
    /\ UNCHANGED <<folder, UpRest>>

\* combine_parsers.py line 205: pd.read_excel(timesheet_summary_path)
UpCombineReadSummary(r) ==
    /\ up[r].pc = "comb_ts"
    /\ IF timesheet_summary_path \in DOMAIN folder
       THEN /\ up' = Advance(r, [up[r] EXCEPT !.pc = "comb_js",
                                              !.ts = folder[timesheet_summary_path].data])
            /\ folder' = ReadFile(folder, timesheet_summary_path, r)
       ELSE /\ up' = Advance(r, [up[r] EXCEPT !.pc = "failed"])
            /\ folder' = folder
    /\ UNCHANGED UpRest

\* combine_parsers.py line 206: pd.read_excel(job_sheet_table_path)
UpCombineReadJobSheet(r) ==
    /\ up[r].pc = "comb_js"
    /\ IF job_sheet_normalized_path \in DOMAIN folder
       THEN /\ up' = Advance(r, [up[r] EXCEPT !.pc = "comb_write",
                                              !.js = folder[job_sheet_normalized_path].data])
            /\ folder' = ReadFile(folder, job_sheet_normalized_path, r)
       ELSE /\ up' = Advance(r, [up[r] EXCEPT !.pc = "failed"])
            /\ folder' = folder
    /\ UNCHANGED UpRest

\* combine_parsers.py lines 307 to 344: the report is written to
\* outputs/COMBINED <name>.xlsx; lines 94 to 107 are skipped when
\* KEEP_INTERMEDIATE is 1
UpCombineWrite(r) ==
    /\ up[r].pc = "comb_write"
    /\ folder' = PutFile(folder, combined_report_path(up[r].filename),
                         up[r].ts \o up[r].js, r, TRUE)
    /\ up' = Advance(r, [up[r] EXCEPT !.pc = IF up[r].keep THEN "respond" ELSE "rm_summary",
                                      !.built = up[r].ts \o up[r].js])
    /\ UNCHANGED UpRest

\* lines 103 to 107, for one path: os.path.exists(p), then os.remove(p)
UpRemove(r, p) ==
    /\ folder' = RemoveFile(folder, p)
    /\ up_lost' =
         IF p \in DOMAIN folder /\ folder[p].by # r /\ folder[p].unread
         THEN up_lost \cup {[path |-> p, of |-> folder[p].by, by |-> r]}
         ELSE up_lost

UpOther == <<normVars, truckVars, tsVars, combVars, sheetVars, dateVars, pipeVars, jobVars>>

UpRemoveSummary(r) ==
    /\ up[r].pc = "rm_summary"
    /\ UpRemove(r, timesheet_summary_path)
    /\ up' = Advance(r, [up[r] EXCEPT !.pc = "rm_jobs"])
    /\ UNCHANGED UpOther

UpRemoveJobSheet(r) ==
    /\ up[r].pc = "rm_jobs"
    /\ UpRemove(r, job_sheet_normalized_path)
    /\ up' = Advance(r, [up[r] EXCEPT !.pc = "rm_long"])
    /\ UNCHANGED UpOther

UpRemoveLong(r) ==
    /\ up[r].pc = "rm_long"
    /\ UpRemove(r, timesheet_long_path)
    /\ up' = Advance(r, [up[r] EXCEPT !.pc = "respond"])
    /\ UNCHANGED UpOther

\* lines 175 to 182: the file at combined_path is sent
UpRespond(r) ==
    /\ up[r].pc = "respond"
    /\ up' = Advance(r, [up[r] EXCEPT !.pc = "done",
                                      !.sent = folder[combined_report_path(up[r].filename)].data])
    /\ folder' = ReadFile(folder, combined_report_path(up[r].filename), r)
    /\ UNCHANGED UpRest

NextUploads ==
    \E r \in Requests :
        \/ UpSave(r)
        \/ UpValidate(r)
        \/ UpTimesheetRead(r)
        \/ UpTimesheetCsv(r)
        \/ UpTimesheetXlsx(r)
        \/ UpJobSheetRead(r)
        \/ UpJobSheetWrite(r)
        \/ UpCombineCheck(r)
        \/ UpCombineReadSummary(r)
        \/ UpCombineReadJobSheet(r)
        \/ UpCombineWrite(r)
        \/ UpRemoveSummary(r)
        \/ UpRemoveJobSheet(r)
        \/ UpRemoveLong(r)
        \/ UpRespond(r)

SpecUploads == InitUploads /\ [][NextUploads]_vars

-----------------------------------------------------------------------------
(* Claims about requests served at the same time.                          *)

\* C27 as stated: in every interleaving of two requests over one output
\* folder, the report of each is built only from the summary and the job
\* sheet table made from its own workbook, and the cleanup of one never
\* removes a file the other has written and not yet read.
C27_Isolated ==
    /\ \A r \in Requests : up[r].built # <<>> => up[r].built = <<r, r>>
    /\ up_lost = {}

\* What holds: a request that was never in flight together with another
\* does not fail, builds its report from its own workbook alone, sends that
\* report, and removes no unread file of another request.
L27_IsolatedAlone ==
    \A r \in Requests :
        up[r].alone =>
            /\ up[r].pc # "failed"
            /\ up[r].built # <<>> => up[r].built = <<r, r>>
            /\ up[r].pc = "done" => up[r].sent = <<r, r>>
            /\ \A e \in up_lost : e.by # r

\* two requests with one saved name, served one after the other, both
\* answered with their own report
L27_Witness ==
    /\ \A r \in Requests : up[r].pc = "done" /\ up[r].alone /\ up[r].sent = <<r, r>>
    /\ \A r \in Requests : saved_path(up[r].filename) = saved_path(up[1].filename)
    /\ up[1].filename # up[2].filename

=========================================================================
